---- MODULE Spec2Model ----
(***************************************************************************)
(* A model of the revenue-forecasting engine: the feature engineering of   *)
(* src/src/data_processing.py, the chronological split, the baseline and   *)
(* the scenario transform of scripts/app.py, the two-group tests, the      *)
(* intervals, the accuracy metrics and the correlation screening of        *)
(* src/src/statistical_analysis.py, the functions of src/src/modeling.py,   *)
(* the cached get_trained_models of scripts/app.py and the ForecastDatabase *)
(* of src/src/database.py.                                                 *)
(*                                                                         *)
(* Dates are day ordinals (integers).  A cell of a table is either NaN     *)
(* (the empty tuple) or a rational number <<num, den>> with den > 0;       *)
(* floating point is modelled by exact rational arithmetic.  A standard    *)
(* deviation is kept as its square (the variance), since a square root     *)
(* is not a rational; comparisons on it are made on the squares.           *)
(***************************************************************************)
EXTENDS Integers, Sequences, FiniteSets, TLC

VARIABLES
    pc,          \* position of the dashboard script: start, loaded, featured, split,
                 \* trained, scenario ("stats", "call", "cache" and "db" outside
                 \* the script)
    sales_raw,   \* train.csv: sequence of [date, sales, onpromotion]
    oil,         \* oil.csv: sequence of [date, dcoilwtico]
    holidays,    \* holidays_events.csv: sequence of [date]
    df_pre,      \* engineer_features' table at line 88, before the imputation pass
    df,          \* the table engineer_features returns
    split_date,  \* the cutoff given to split_train_test
    train,       \* split_train_test's first result
    test,        \* split_train_test's second result
    baseline,    \* get_trained_models' second result: [err, pred]
    X_test,      \* test[feature_cols]
    promo_change,  \* the Promotions Change slider, in percent
    oil_change,    \* the Oil Price Change slider, in percent
    scenario_df,   \* the table the Forecasting page gives to the model
    stat_df,        \* the table given to the two-group tests: rows [sales, promo_count, is_holiday]
    promo_result,   \* what test_promotion_impact returned
    holiday_result, \* what test_holiday_impact returned
    call,        \* a call of one of the other statistics: its function and arguments
    ret,         \* what that call returned
    model_cache, \* st.cache_resource of get_trained_models: cache key -> cached value
    trained,     \* the last call of get_trained_models: its arguments and what it got
    db_forecasts,     \* committed rows of table forecasts, in rowid order
    db_scenarios,     \* committed rows of table scenarios, in rowid order
    db_historical,    \* committed rows of table historical_sales, in rowid order
    db_connections,   \* connections the wrapper opened that are still open
    db_call      \* the last ForecastDatabase call: arguments, tables before it, outcome

scenVars == <<promo_change, oil_change, scenario_df>>
pipeVars == <<pc, sales_raw, oil, holidays, df_pre, df, split_date, train, test, baseline,
              X_test, scenVars>>
statVars == <<stat_df, promo_result, holiday_result>>
callVars == <<call, ret>>
cacheVars == <<model_cache, trained>>
dbVars == <<db_forecasts, db_scenarios, db_historical, db_connections, db_call>>
storeVars == <<cacheVars, dbVars>>
vars == <<pipeVars, statVars, callVars, storeVars>>

-----------------------------------------------------------------------------
(* Program constants *)
Lag1 == 1
Lag7 == 7
Lag30 == 30
Win7 == 7
Win30 == 30
YoY == 365
MinObs == 10
WeekendFrom == 5
DaysPerWeek == 7

(* Bounds of the model *)
MaxSmall == 4        \* short histories have 0..MaxSmall days
MaxTail == 5         \* long histories have Lag30 + MaxTail and YoY + MaxTail days
MaxSeed == 1         \* sales patterns 0..MaxSeed
SalesMod == 5        \* raw sales are drawn from 0..SalesMod-1
MaxRows == 4         \* the tables given to the two-group tests have 0..MaxRows rows
MaxSample == 3       \* the samples given to the other statistics have 0..MaxSample values
MaxFeatures == 3     \* the frames given to calculate_correlations have 0..MaxFeatures features

-----------------------------------------------------------------------------
(* Cells *)
NaN == <<>>
Num(n) == <<n, 1>>
\* equality of two cells as numbers (NaN equals nothing, as in IEEE)
NumEq(a, b) == a # NaN /\ b # NaN /\ a[1] * b[2] = b[1] * a[2]
\* the same cell: both missing, or the same number
SameCell(a, b) == IF a = NaN \/ b = NaN THEN a = b ELSE a[1] * b[2] = b[1] * a[2]

Max(a, b) == IF a > b THEN a ELSE b

\* the sum of a sequence of integers, by halves (a long column is summed
\* without a deep recursion)
RECURSIVE SumRange(_, _, _)
SumRange(s, lo, hi) ==
    IF lo > hi THEN 0
    ELSE IF lo = hi THEN s[lo]
    ELSE LET mid == (lo + hi) \div 2
         IN SumRange(s, lo, mid) + SumRange(s, mid + 1, hi)

SumInts(s) == SumRange(s, 1, Len(s))

-----------------------------------------------------------------------------
(* pandas column operations *)

\* Series.shift(k): the value k rows earlier, NaN for the first k rows
Shift(col, k) == [i \in 1..Len(col) |-> IF i > k THEN col[i - k] ELSE NaN]

\* Series.rolling(k): the window of row i is rows i-k+1..i; the result is NaN
\* unless the window holds k numbers (min_periods = k)
WindowFull(col, i, k) == i >= k /\ \A j \in (i - k + 1)..i : col[j] # NaN
WindowSum(col, i, k) == SumInts([j \in 1..k |-> col[i - k + j][1]])
WindowSumSq(col, i, k) == SumInts([j \in 1..k |-> col[i - k + j][1] * col[i - k + j][1]])

\* rolling(k).mean() of an integer-valued column
RollingMean(col, k) ==
    [i \in 1..Len(col) |->
        IF WindowFull(col, i, k) THEN <<WindowSum(col, i, k), k>> ELSE NaN]

\* rolling(k).std() (ddof = 1) of an integer-valued column, kept squared:
\* (k * sum(x^2) - sum(x)^2) / (k * (k - 1))
RollingStd(col, k) ==
    [i \in 1..Len(col) |->
        IF WindowFull(col, i, k)
        THEN <<k * WindowSumSq(col, i, k) - WindowSum(col, i, k) * WindowSum(col, i, k),
               k * (k - 1)>>
        ELSE NaN]

\* Series.bfill(): a scan from the last row carrying the last number seen.
\* Rows lo..hi are filled given the carry that enters at row hi; the scan is
\* cut in halves, the right half first (the test on it makes TLC compute it
\* before the left half), its first cell being the carry of the left half.
RECURSIVE BfillScan(_, _, _, _)
BfillScan(col, lo, hi, carry) ==
    IF lo > hi THEN <<>>
    ELSE IF lo = hi THEN <<IF col[lo] # NaN THEN col[lo] ELSE carry>>
    ELSE LET mid == (lo + hi) \div 2
             right == BfillScan(col, mid + 1, hi, carry)
         IN IF Len(right) > 0 THEN BfillScan(col, lo, mid, right[1]) \o right
            ELSE right

Bfill(col) == BfillScan(col, 1, Len(col), NaN)

\* Series.ffill(): a scan from the first row carrying the last number seen
RECURSIVE FfillScan(_, _, _, _)
FfillScan(col, lo, hi, carry) ==
    IF lo > hi THEN <<>>
    ELSE IF lo = hi THEN <<IF col[lo] # NaN THEN col[lo] ELSE carry>>
    ELSE LET mid == (lo + hi) \div 2
             left == FfillScan(col, lo, mid, carry)
         IN IF Len(left) > 0 THEN left \o FfillScan(col, mid + 1, hi, left[Len(left)])
            ELSE left

Ffill(col) == FfillScan(col, 1, Len(col), NaN)

\* Series.fillna(0)
Fillna0(col) == [i \in 1..Len(col) |-> IF col[i] = NaN THEN Num(0) ELSE col[i]]

-----------------------------------------------------------------------------
(* engineer_features *)

\* the dates of a frame's rows, ascending and distinct (groupby sorts its keys)
GroupKeys(rows, lastDate) ==
    LET present == {rows[i].date : i \in 1..Len(rows)}
    IN SelectSeq([d \in 1..lastDate |-> d], LAMBDA d : d \in present)

\* groupby("date")[field].sum() at one date
GroupSum(rows, field, d) ==
    SumInts([i \in 1..Len(rows) |-> IF rows[i].date = d THEN rows[i][field] ELSE 0])

\* lines 48-54: one row per date with the summed sales and promotion count
DailySales(rows, lastDate) ==
    LET keys == GroupKeys(rows, lastDate)
    IN [i \in 1..Len(keys) |->
          [date |-> keys[i],
           sales |-> GroupSum(rows, "sales", keys[i]),
           promo_count |-> GroupSum(rows, "onpromotion", keys[i])]]

\* line 56: DataFrame.merge(oil, on="date", how="left"): the left rows in
\* order, each once per oil row of its date, or once with NaN when it has none
MergeRow(l, right) ==
    LET hits == SelectSeq(right, LAMBDA o : o.date = l.date)
    IN IF hits = <<>>
       THEN <<[date |-> l.date, sales |-> l.sales,
               promo_count |-> l.promo_count, dcoilwtico |-> NaN]>>
       ELSE [j \in 1..Len(hits) |->
               [date |-> l.date, sales |-> l.sales,
                promo_count |-> l.promo_count, dcoilwtico |-> hits[j].dcoilwtico]]

RECURSIVE MergeRange(_, _, _, _)
MergeRange(left, right, lo, hi) ==
    IF lo > hi THEN <<>>
    ELSE IF lo = hi THEN MergeRow(left[lo], right)
    ELSE LET mid == (lo + hi) \div 2
         IN MergeRange(left, right, lo, mid) \o MergeRange(left, right, mid + 1, hi)

MergeLeft(left, right) == MergeRange(left, right, 1, Len(left))

\* the dates of the calendar that occur in it exactly once
HolidayDatesOnce(h) ==
    {h[i].date[1] : i \in {j \in 1..Len(h) :
        h[j].date # <<>> /\ \A k \in 1..Len(h) : h[k].date = h[j].date => k = j}}

\* line 82: holidays["date"].dropna().unique()
HolidayDates(h) == {h[i].date[1] : i \in {j \in 1..Len(h) : h[j].date # <<>>}}

\* lines 48-87: the table with every derived column, before the imputation.
\* The merged frame is already in date order (groupby sorts, a left merge
\* keeps the left order), so the sort of line 60 moves no row; promo has a
\* row for every date of daily_sales, so the fillna of line 54 fills nothing.
\* Of the calendar columns, day_of_week and is_weekend are kept (day d falls
\* on weekday d mod 7); year, month, day_of_month and quarter, which need the
\* Gregorian calendar and are never missing, are left out.
DerivedColumns(sr, o, h, lastDate) ==
    LET merged == MergeLeft(DailySales(sr, lastDate), o)
        n == Len(merged)
        date == [i \in 1..n |-> merged[i].date]
        sales == [i \in 1..n |-> Num(merged[i].sales)]
        dcoil == [i \in 1..n |-> merged[i].dcoilwtico]
        prev == Shift(sales, Lag1)
        yoy == Shift(sales, YoY)
        hol == HolidayDates(h)
    IN [date |-> date,
        sales |-> sales,
        promo_count |-> [i \in 1..n |-> Num(merged[i].promo_count)],
        dcoilwtico |-> dcoil,
        oil_price |-> Bfill(Ffill(dcoil)),
        day_of_week |-> [i \in 1..n |-> Num(date[i] % DaysPerWeek)],
        is_weekend |-> [i \in 1..n |->
                          Num(IF date[i] % DaysPerWeek >= WeekendFrom THEN 1 ELSE 0)],
        lag_1 |-> prev,
        lag_7 |-> Shift(sales, Lag7),
        lag_30 |-> Shift(sales, Lag30),
        roll_mean_7 |-> RollingMean(prev, Win7),
        roll_mean_30 |-> RollingMean(prev, Win30),
        roll_std_7 |-> RollingStd(prev, Win7),
        roll_std_30 |-> RollingStd(prev, Win30),
        is_holiday |-> [i \in 1..n |-> Num(IF date[i] \in hol THEN 1 ELSE 0)],
        yoy_sales |-> yoy,
        yoy_growth |-> [i \in 1..n |->
                          IF yoy[i] = NaN THEN NaN
                          ELSE <<sales[i][1] - yoy[i][1], yoy[i][1] + 1>>]]

\* a variant that fills forward first, as the comment of line 89 words it
ImputeColumnForwardFirst(col) == Fillna0(Bfill(Ffill(col)))

\* line 90: df.bfill().ffill().fillna(0), column by column (the index is no column)
ImputeColumn(col) == Fillna0(Ffill(Bfill(col)))

Impute(tbl) ==
    [c \in DOMAIN tbl |-> IF c = "date" THEN tbl[c] ELSE ImputeColumn(tbl[c])]

engineer_features(sr, o, h, lastDate) == Impute(DerivedColumns(sr, o, h, lastDate))

EmptyTable == [c \in {"date"} |-> <<>>]

-----------------------------------------------------------------------------
(* load_data: the three files, drawn from a bounded family *)

\* the number of days a history spans
Sizes == (0..MaxSmall) \cup {Lag30 + MaxTail, YoY + MaxTail}
LastDate == YoY + MaxTail + 1

SalesAt(seed, d) == ((d + seed) * (d + seed) + seed) % SalesMod

\* train.csv: one row per day of 1..n except the day `gap` (0: none), and a
\* second row (another store) on the day `extra` (0: none)
MakeSales(n, seed, gap, extra) ==
    LET days == SelectSeq([d \in 1..n |-> d], LAMBDA d : d # gap)
        first == [i \in 1..Len(days) |->
                    [date |-> days[i], sales |-> SalesAt(seed, days[i]),
                     onpromotion |-> IF days[i] % 3 = seed THEN 1 ELSE 0]]
    IN IF extra \in 1..n /\ extra # gap
       THEN Append(first, [date |-> extra, sales |-> 1, onpromotion |-> 1])
       ELSE first

\* oil.csv. "full": a price for every day 1..n+1; "weekdays": a price on the
\* trading days of 1..n-1 only, with some prices missing; "dup": as weekdays,
\* with two rows for day 2; "none": no rows
OilKinds == {"weekdays", "full", "dup", "none"}
MakeOil(n, kind) ==
    LET days == SelectSeq([d \in 1..(n + 1) |-> d],
                          LAMBDA d : kind = "full"
                                     \/ (d < n /\ d % DaysPerWeek < WeekendFrom))
        rows == [i \in 1..Len(days) |->
                   [date |-> days[i],
                    dcoilwtico |-> IF kind # "full" /\ days[i] % 4 = 1
                                   THEN NaN ELSE Num(40 + (days[i] % 3))]]
    IN CASE kind = "none" -> <<>>
         [] kind = "dup" -> rows \o <<[date |-> 2, dcoilwtico |-> Num(50)]>>
         [] OTHER -> rows

\* holidays_events.csv: a calendar with a repeated day and a row without a date
HolKinds == {"some", "none"}
MakeHolidays(n, kind) ==
    IF kind = "none" THEN <<>>
    ELSE <<[date |-> <<2>>], [date |-> <<>>], [date |-> <<2>>], [date |-> <<n>>]>>

-----------------------------------------------------------------------------
(* split_train_test *)

\* Index.searchsorted on an ascending index: the number of labels before v
\* (side = "left") or not after v (side = "right"), found by bisection
RECURSIVE SearchSorted(_, _, _, _, _)
SearchSorted(idx, v, side, lo, hi) ==
    IF lo >= hi THEN lo
    ELSE LET mid == (lo + hi) \div 2
             goRight == IF side = "left" THEN idx[mid + 1] < v ELSE idx[mid + 1] <= v
         IN IF goRight THEN SearchSorted(idx, v, side, mid + 1, hi)
            ELSE SearchSorted(idx, v, side, lo, mid)

\* rows a..b of a table
Rows(tbl, a, b) == [c \in DOMAIN tbl |-> SubSeq(tbl[c], a, b)]

\* a variant whose slice excludes its end
TrainPartExclusive(tbl, cutoff) ==
    Rows(tbl, 1, SearchSorted(tbl.date, cutoff, "left", 0, Len(tbl.date)))

\* line 121: df.loc[:split_date], a label slice that includes its end
TrainPart(tbl, cutoff) ==
    Rows(tbl, 1, SearchSorted(tbl.date, cutoff, "right", 0, Len(tbl.date)))

\* line 122: df.loc[split_date:], a label slice that includes its start
TestPart(tbl, cutoff) ==
    Rows(tbl, SearchSorted(tbl.date, cutoff, "left", 0, Len(tbl.date)) + 1, Len(tbl.date))

\* get_feature_columns, lines 97-103 (the calendar columns year, month and
\* quarter are not part of the modelled table)
feature_cols ==
    {"oil_price", "promo_count", "is_holiday", "is_weekend", "day_of_week",
     "lag_1", "lag_7", "lag_30", "roll_mean_7", "roll_mean_30",
     "roll_std_7", "roll_std_30"}

\* frame[cols]: the named columns, under the same index
Columns(tbl, cols) == [c \in (cols \cap DOMAIN tbl) \cup {"date"} |-> tbl[c]]

-----------------------------------------------------------------------------
(* The scenario transform of the Forecasting page, scripts/app.py 268-271 *)

\* a variant that multiplies by the change itself, pct / 100
ScaleColumnByChange(col, pct) ==
    [i \in 1..Len(col) |-> IF col[i] = NaN THEN NaN ELSE <<col[i][1] * pct, col[i][2] * 100>>]

\* column * (1 + pct / 100)
ScaleColumn(col, pct) ==
    [i \in 1..Len(col) |->
        IF col[i] = NaN THEN NaN ELSE <<col[i][1] * (100 + pct), col[i][2] * 100>>]

\* a variant that assigns the two columns in X_test itself, without copy()
ScenarioInPlace(X, promo_pct, oil_pct) ==
    LET scaled == [c \in DOMAIN X |->
                     IF c = "promo_count" THEN ScaleColumn(X[c], promo_pct)
                     ELSE IF c = "oil_price" THEN ScaleColumn(X[c], oil_pct)
                     ELSE X[c]]
    IN [X_test |-> scaled, scenario_df |-> scaled]

\* lines 269-271: the copy of X_test with its promo_count and oil_price
\* columns replaced; gives X_test and the copy after the three statements
ScenarioTransform(X, promo_pct, oil_pct) ==
    [X_test |-> X,
     scenario_df |-> [c \in DOMAIN X |->
                        IF c = "promo_count" THEN ScaleColumn(X[c], promo_pct)
                        ELSE IF c = "oil_price" THEN ScaleColumn(X[c], oil_pct)
                        ELSE X[c]]]

\* the slider positions tried: both ends and the default (lines 174-181)
PromoChanges == {0 - 50, 0, 100}
OilChanges == {0 - 30, 0, 30}

-----------------------------------------------------------------------------
(* get_trained_models: the baseline *)

\* line 132: values[-test_size:], Python's slice from the end (-0 is 0)
LastValues(values, k) ==
    IF k = 0 \/ k >= Len(values) THEN values
    ELSE SubSeq(values, Len(values) - k + 1, Len(values))

\* a variant that pads with zeros (mode='constant')
PadZero(a, k) == a \o [i \in 1..k |-> Num(0)]

\* lines 135-136: np.pad(a, (0, k), mode='edge'); numpy raises ValueError
\* when it is asked to extend an empty array by its edge
PadEdge(a, k) == a \o [i \in 1..k |-> a[Len(a)]]

\* lines 132-137
BaselinePred(lag_1, test_size) ==
    LET last == LastValues(lag_1, test_size)
    IN IF Len(last) < test_size
       THEN IF Len(last) = 0
            THEN [err |-> TRUE, pred |-> <<>>]
            ELSE [err |-> FALSE,
                  pred |-> SubSeq(PadEdge(last, Max(0, test_size - Len(last))), 1, test_size)]
       ELSE [err |-> FALSE, pred |-> SubSeq(last, 1, test_size)]

-----------------------------------------------------------------------------
(* Floating-point numbers of the statistics: rationals <<num, den>> with    *)
(* den > 0, the infinities <<1, 0>> and <<-1, 0>>, and NaN                  *)

PosInf == <<1, 0>>
NegInf == <<0 - 1, 0>>
Sign(n) == IF n > 0 THEN 1 ELSE IF n < 0 THEN 0 - 1 ELSE 0
Abs(n) == IF n < 0 THEN 0 - n ELSE n

\* a - b of two finite numbers or NaN
FSub(a, b) ==
    IF a = NaN \/ b = NaN THEN NaN ELSE <<a[1] * b[2] - b[1] * a[2], a[2] * b[2]>>

\* a / b of two finite numbers or NaN, as numpy divides float64: a zero
\* divisor gives an infinity, or NaN for 0/0, and raises nothing
FDiv(a, b) ==
    IF a = NaN \/ b = NaN THEN NaN
    ELSE IF b[1] = 0
         THEN IF a[1] = 0 THEN NaN ELSE IF a[1] > 0 THEN PosInf ELSE NegInf
         ELSE <<a[1] * b[2] * Sign(b[1]), a[2] * Abs(b[1])>>

\* a * k for an integer k > 0 (an infinity stays the same infinity)
FScale(a, k) == IF a = NaN THEN NaN ELSE IF a[2] = 0 THEN a ELSE <<a[1] * k, a[2]>>

\* a > b as IEEE compares: false when either is NaN (b finite)
FGreater(a, b) ==
    /\ a # NaN /\ b # NaN
    /\ IF a[2] = 0 THEN a[1] > 0 ELSE a[1] * b[2] > b[1] * a[2]

\* Series.mean(): NaN for an empty series
Mean(xs) == IF Len(xs) = 0 THEN NaN ELSE <<SumInts(xs), Len(xs)>>

\* the sum of squared deviations from the mean, times the length:
\* n * sum(x^2) - sum(x)^2
SumSqDevTimesN(xs) ==
    Len(xs) * SumInts([i \in 1..Len(xs) |-> xs[i] * xs[i]]) - SumInts(xs) * SumInts(xs)

\* Series.std() ** 2 (ddof = 1): NaN for fewer than two values
Variance(xs) ==
    IF Len(xs) < 2 THEN NaN ELSE <<SumSqDevTimesN(xs), Len(xs) * (Len(xs) - 1)>>

\* lines 63-65, squared: ((nA-1) * varA + (nB-1) * varB) / (nA + nB - 2)
PooledVariance(xs, ys) ==
    IF Variance(xs) = NaN \/ Variance(ys) = NaN THEN NaN
    ELSE <<SumSqDevTimesN(xs) * Len(ys) + SumSqDevTimesN(ys) * Len(xs),
           Len(xs) * Len(ys) * (Len(xs) + Len(ys) - 2)>>

\* a quotient num / sqrt(var), kept as its sign and its square
SignedSquare(num, var) ==
    IF num = NaN \/ var = NaN THEN [sign |-> 0, sq |-> NaN]
    ELSE [sign |-> Sign(num[1]),
          sq |-> FDiv(<<num[1] * num[1], num[2] * num[2]>>, var)]

\* line 66: cohens_d = (mean A - mean B) / pooled_std
CohensD(xs, ys) == SignedSquare(FSub(Mean(xs), Mean(ys)), PooledVariance(xs, ys))

\* stats.ttest_ind(a, b), equal variances: t = (mean a - mean b) /
\* sqrt(pooled variance * (1/na + 1/nb)); NaN when a group has fewer than
\* two values
TStatistic(xs, ys) ==
    LET pv == PooledVariance(xs, ys)
    IN SignedSquare(FSub(Mean(xs), Mean(ys)),
                    IF pv = NaN THEN NaN
                    ELSE <<pv[1] * (Len(xs) + Len(ys)), pv[2] * Len(xs) * Len(ys)>>)

\* line 81: "large" if abs(d) > 0.8 else "medium" if abs(d) > 0.5 else
\* "small", compared on the squares (0.64 and 0.25)
EffectSize(d) ==
    IF FGreater(d.sq, <<16, 25>>) THEN "large"
    ELSE IF FGreater(d.sq, <<1, 4>>) THEN "medium"
    ELSE "small"

\* a variant that divides the difference by the mean of group A
LiftOverFirst(a, b) == FScale(FDiv(FSub(a, b), a), 100)

\* line 69: lift = ((promo_mean - no_promo_mean) / no_promo_mean) * 100
LiftPercentage(a, b) == FScale(FDiv(FSub(a, b), b), 100)

\* frame['sales'].values
SalesOf(rows) == [i \in 1..Len(rows) |-> rows[i].sales]

\* test_promotion_impact(df), lines 53-82.  The p-value of the t-test and
\* the flag derived from it (a Student-t tail probability) are not part of
\* the modelled result.
test_promotion_impact(tbl) ==
    LET promo_days == SalesOf(SelectSeq(tbl, LAMBDA r : r.promo_count > 0))
        no_promo_days == SalesOf(SelectSeq(tbl, LAMBDA r : r.promo_count = 0))
        d == CohensD(promo_days, no_promo_days)
    IN IF Len(promo_days) = 0 \/ Len(no_promo_days) = 0
       THEN [tag |-> "error", error |-> "Insufficient data for comparison"]
       ELSE [tag |-> "ok",
             t_statistic |-> TStatistic(promo_days, no_promo_days),
             promo_mean |-> Mean(promo_days),
             no_promo_mean |-> Mean(no_promo_days),
             lift_percentage |-> LiftPercentage(Mean(promo_days), Mean(no_promo_days)),
             cohens_d |-> d,
             effect_size |-> EffectSize(d)]

\* test_holiday_impact(df), lines 98-119
test_holiday_impact(tbl) ==
    LET holiday_days == SalesOf(SelectSeq(tbl, LAMBDA r : r.is_holiday = 1))
        regular_days == SalesOf(SelectSeq(tbl, LAMBDA r : r.is_holiday = 0))
        regular_mean == Mean(regular_days)
    IN IF Len(holiday_days) = 0
       THEN [tag |-> "error", error |-> "No holiday data available"]
       ELSE [tag |-> "ok",
             t_statistic |-> TStatistic(holiday_days, regular_days),
             holiday_mean |-> Mean(holiday_days),
             regular_mean |-> regular_mean,
             lift_percentage |->
                 IF FGreater(regular_mean, Num(0))
                 THEN LiftPercentage(Mean(holiday_days), regular_mean)
                 ELSE Num(0)]

\* the tables the tests are tried on: every table of at most MaxRows rows
\* over these cells, its rows in one fixed order
StatSales == {0, 5, 8, 11}
StatRowSeq ==
    LET cells == [sales : StatSales, promo_count : {0, 1}, is_holiday : {0, 1}]
        RECURSIVE Listed(_)
        Listed(S) == IF S = {} THEN <<>>
                     ELSE LET r == CHOOSE x \in S : TRUE IN <<r>> \o Listed(S \ {r})
    IN Listed(cells)

RECURSIVE NonDecreasing(_, _)
NonDecreasing(n, lo) ==
    IF n = 0 THEN {<<>>}
    ELSE UNION {{<<k>> \o t : t \in NonDecreasing(n - 1, k)} : k \in lo..Len(StatRowSeq)}

\* eight days of sales of 100 with a promotion on the last one only, which
\* sells 200
PromoExample ==
    [i \in 1..8 |-> [sales |-> IF i = 8 THEN 200 ELSE 100,
                     promo_count |-> IF i = 8 THEN 1 ELSE 0,
                     is_holiday |-> 0]]

\* one- and two-row tables whose promo_count and is_holiday also take values
\* that engineer_features does not produce: a negative count, a flag of 2
OffCodeTables ==
    LET cells == [sales : {5}, promo_count : {0 - 1, 0, 1}, is_holiday : {0, 1, 2}]
    IN {<<r>> : r \in cells} \cup {<<r, q>> : r \in cells, q \in cells}

StatTables ==
    {[i \in 1..Len(ix) |-> StatRowSeq[ix[i]]] :
        ix \in UNION {NonDecreasing(n, 1) : n \in 0..MaxRows}}
      \cup {PromoExample} \cup OffCodeTables

NoResult == [tag |-> "none"]

-----------------------------------------------------------------------------
(* Intervals and accuracy metrics of src/src/statistical_analysis.py.  A    *)
(* bound mean - h or mean + h with h = s * sqrt(q) is kept as its base and  *)
(* the signed square of its offset: [base, sign, sq].                       *)

\* stats.t.ppf((1 + confidence) / 2, dof) in thousandths, for 1..12 degrees
\* of freedom and the confidence levels 0.90, 0.95 and 0.99
TTable ==
    [c \in {90, 95, 99} |->
        IF c = 90 THEN <<6314, 2920, 2353, 2132, 2015, 1943, 1895, 1860, 1833, 1812, 1796, 1782>>
        ELSE IF c = 95
        THEN <<12706, 4303, 3182, 2776, 2571, 2447, 2365, 2306, 2262, 2228, 2201, 2179>>
        ELSE <<63657, 9925, 5841, 4604, 4032, 3707, 3499, 3355, 3250, 3169, 3106, 3055>>]

\* line 34: stats.t.ppf((1 + confidence) / 2, len(values) - 1); NaN when
\* there is no degree of freedom
TQuantile(confidence, dof) ==
    IF dof < 1 THEN NaN ELSE <<TTable[confidence][dof], 1000>>

\* line 33: stats.sem(values), squared: the variance (ddof = 1) over n; NaN
\* for fewer than two values
SemSquared(xs) ==
    IF Len(xs) < 2 THEN NaN
    ELSE <<SumSqDevTimesN(xs), Len(xs) * Len(xs) * (Len(xs) - 1)>>

\* a product s * q of a root s = sqrt(ssq) and a number q: its sign, the
\* square of the root and the size of the number, kept apart
RootTimes(ssq, q) ==
    IF ssq = NaN \/ q = NaN THEN [sign |-> 0, ssq |-> NaN, q |-> NaN]
    ELSE [sign |-> Sign(ssq[1]) * Sign(q[1]), ssq |-> ssq, q |-> <<Abs(q[1]), q[2]>>]

\* base + dir * h for dir = 1 or -1
Offset(base, h, dir) ==
    IF base = NaN \/ h.ssq = NaN THEN [base |-> NaN, sign |-> 0, ssq |-> NaN, q |-> NaN]
    ELSE [base |-> base, sign |-> dir * h.sign, ssq |-> h.ssq, q |-> h.q]

\* sqrt(a.ssq) * a.q <= sqrt(b.ssq) * b.q
SizeLeq(a, b) ==
    IF NumEq(a.ssq, b.ssq) THEN a.q[1] * b.q[2] <= b.q[1] * a.q[2]
    ELSE IF NumEq(a.q, b.q) THEN a.ssq[1] * b.ssq[2] <= b.ssq[1] * a.ssq[2]
    ELSE a.ssq[1] * a.q[1] * a.q[1] * b.ssq[2] * b.q[2] * b.q[2]
            <= b.ssq[1] * b.q[1] * b.q[1] * a.ssq[2] * a.q[2] * a.q[2]

\* a <= b for two bounds around the same base, as IEEE compares: false
\* when either is NaN
OffsetLeq(a, b) ==
    /\ a.base # NaN /\ b.base # NaN /\ a.ssq # NaN /\ b.ssq # NaN
    /\ NumEq(a.base, b.base)
    /\ IF a.sign # b.sign THEN a.sign < b.sign
       ELSE IF a.sign > 0 THEN SizeLeq(a, b)
       ELSE IF a.sign < 0 THEN SizeLeq(b, a)
       ELSE TRUE

\* calculate_confidence_interval(values, confidence), lines 31-36; the
\* confidence is in percent and std_err is kept squared
calculate_confidence_interval(values, confidence) ==
    LET mean == Mean(values)
        std_err == SemSquared(values)
        h == RootTimes(std_err, TQuantile(confidence, Len(values) - 1))
    IN [tag |-> "ok", lower |-> Offset(mean, h, 0 - 1), upper |-> Offset(mean, h, 1),
        mean |-> mean, std_err |-> std_err]

\* a + b of two numbers
FAdd(a, b) ==
    IF a = NaN \/ b = NaN THEN NaN
    ELSE IF a[2] = 0 THEN (IF b[2] = 0 /\ b[1] # a[1] THEN NaN ELSE a)
    ELSE IF b[2] = 0 THEN b
    ELSE <<a[1] * b[2] + b[1] * a[2], a[2] * b[2]>>

\* np.mean of an array of numbers: NaN for an empty array
RECURSIVE FSum(_)
FSum(xs) == IF Len(xs) = 0 THEN Num(0) ELSE FAdd(xs[1], FSum(Tail(xs)))
FMean(xs) == IF Len(xs) = 0 THEN NaN ELSE FDiv(FSum(xs), Num(Len(xs)))

\* the k-th smallest value of a non-empty array of integers
KthSmallest(xs, k) ==
    CHOOSE v \in {xs[i] : i \in 1..Len(xs)} :
        /\ Cardinality({i \in 1..Len(xs) : xs[i] < v}) < k
        /\ Cardinality({i \in 1..Len(xs) : xs[i] <= v}) >= k

\* np.median: the middle value, or the mean of the two middle values
Median(xs) ==
    LET n == Len(xs)
    IN IF n % 2 = 1 THEN Num(KthSmallest(xs, (n + 1) \div 2))
       ELSE <<KthSmallest(xs, n \div 2) + KthSmallest(xs, n \div 2 + 1), 2>>

\* np.std (ddof = 0), squared: NaN for an empty array
PopulationVariance(xs) ==
    IF Len(xs) = 0 THEN NaN ELSE <<SumSqDevTimesN(xs), Len(xs) * Len(xs)>>

\* calculate_forecast_accuracy_metrics(actual, predicted), lines 251-274,
\* for arrays of one length; np.max of an empty array raises ValueError.
\* RMSE and Std_Error are kept squared.
calculate_forecast_accuracy_metrics(actual, predicted) ==
    LET n == Len(actual)
        errors == [i \in 1..n |-> actual[i] - predicted[i]]
        abs_errors == [i \in 1..n |-> Abs(errors[i])]
        pct_errors == [i \in 1..n |->
                         FScale(FDiv(Num(abs_errors[i]), Num(actual[i] + 1)), 100)]
        ci == calculate_confidence_interval(errors, 95)
    IN IF n = 0 THEN [tag |-> "raise", error |-> "ValueError"]
       ELSE [tag |-> "ok",
             MAE |-> Mean(abs_errors),
             RMSE |-> Mean([i \in 1..n |-> errors[i] * errors[i]]),
             MAPE |-> FMean(pct_errors),
             Mean_Error |-> Mean(errors),
             Std_Error |-> PopulationVariance(errors),
             Max_Error |-> KthSmallest(abs_errors, n),
             Min_Error |-> KthSmallest(abs_errors, 1),
             Median_Abs_Error |-> Median(abs_errors),
             Error_CI_Lower |-> ci.lower,
             Error_CI_Upper |-> ci.upper]

\* stats.norm.ppf((1 + confidence) / 2) in thousandths
ZQuantile(confidence) ==
    IF confidence = 90 THEN <<1645, 1000>>
    ELSE IF confidence = 95 THEN <<1960, 1000>>
    ELSE <<2576, 1000>>

\* forecast_confidence_intervals(forecasts, historical_errors, confidence),
\* lines 214-233: the rows of the returned frame
forecast_confidence_intervals(forecasts, historical_errors, confidence) ==
    LET error_std == PopulationVariance(historical_errors)
        z_score == ZQuantile(confidence)
        margin == RootTimes(error_std, z_score)
    IN [tag |-> "ok",
        rows |-> [i \in 1..Len(forecasts) |->
                    [forecast |-> Num(forecasts[i]),
                     lower_bound |-> Offset(Num(forecasts[i]), margin, 0 - 1),
                     upper_bound |-> Offset(Num(forecasts[i]), margin, 1),
                     confidence_level |-> confidence]]]

-----------------------------------------------------------------------------
(* calculate_correlations.  A frame is a sequence of columns [name, values], *)
(* its values integers or NaN; a correlation r is kept as its sign and r^2.  *)

RECURSIVE Gcd(_, _)
Gcd(a, b) == IF b = 0 THEN a ELSE Gcd(b, a % b)

\* the fraction num / den (den > 0) in lowest terms
Reduced(num, den) ==
    LET g == Gcd(Abs(num), den) IN <<num \div g, den \div g>>

\* series.dropna() of a column
DropNa(col) == SelectSeq(col, LAMBDA x : x # NaN)

\* the values of a column of whole numbers without NaN
Values(col) == [i \in 1..Len(col) |-> col[i][1]]

\* n * sum(x * y) - sum(x) * sum(y)
CovTimesN(xs, ys) ==
    Len(xs) * SumInts([i \in 1..Len(xs) |-> xs[i] * ys[i]]) - SumInts(xs) * SumInts(ys)

\* the two-sided 5% critical value of r^2 for n = 11, 12, 13, 14 points,
\* in hundredths (0.602, 0.576, 0.553 and 0.532 squared)
CriticalR2 == <<36, 33, 31, 28>>

\* stats.pearsonr(x, y) for arrays of more than MinObs values: ValueError
\* for arrays of different lengths; r and p are NaN when an array is
\* constant.  The p-value is kept as the side of 0.05 it lies on.
Pearsonr(xs, ys) ==
    LET n == Len(xs)
        cov == CovTimesN(xs, ys)
        vx == SumSqDevTimesN(xs)
        vy == SumSqDevTimesN(ys)
        r2 == Reduced(cov * cov, vx * vy)
    IN IF n # Len(ys) THEN [tag |-> "raise"]
       ELSE IF vx = 0 \/ vy = 0
       THEN [tag |-> "ok", corr |-> [sign |-> 0, sq |-> NaN],
             p_val |-> [defined |-> FALSE, below |-> FALSE]]
       ELSE [tag |-> "ok", corr |-> [sign |-> Sign(cov), sq |-> r2],
             p_val |-> [defined |-> TRUE,
                        below |-> r2[1] * 100 > CriticalR2[n - MinObs] * r2[2]]]

\* lines 139-140: the numeric columns other than the target
NumericCols(frame, target_col) == SelectSeq(frame, LAMBDA c : c.name # target_col)

\* frame[target_col]
TargetOf(frame, target_col) ==
    (SelectSeq(frame, LAMBDA c : c.name = target_col))[1].values

\* lines 145-159: one row per numeric column, in the frame's order
CorrelationRow(frame, target_col, col) ==
    LET res == IF Len(DropNa(col.values)) > MinObs
               THEN Pearsonr(Values(DropNa(TargetOf(frame, target_col))),
                             Values(DropNa(col.values)))
               ELSE [tag |-> "ok", corr |-> [sign |-> 0, sq |-> NaN],
                     p_val |-> [defined |-> FALSE, below |-> FALSE]]
    IN IF res.tag = "raise" THEN res
       ELSE [tag |-> "ok",
             Feature |-> col.name,
             Correlation |-> res.corr,
             P_Value |-> res.p_val,
             Significant |-> res.p_val.defined /\ res.p_val.below,
             Strength |-> IF res.corr.sq # NaN THEN res.corr.sq ELSE Num(0)]

CorrelationRows(frame, target_col) ==
    LET cols == NumericCols(frame, target_col)
    IN [i \in 1..Len(cols) |-> CorrelationRow(frame, target_col, cols[i])]

\* the orders of 1..n: its permutations
Orders(n) == {f \in [1..n -> 1..n] : \A i, j \in 1..n : i # j => f[i] # f[j]}

\* a variant that sorts by Strength ascending
SortedAscending(rows) ==
    {[i \in 1..Len(rows) |-> rows[f[i]]] : f \in
        {g \in Orders(Len(rows)) :
            \A i, j \in 1..Len(rows) :
                i < j => rows[g[i]].Strength[1] * rows[g[j]].Strength[2]
                           <= rows[g[j]].Strength[1] * rows[g[i]].Strength[2]}}

\* line 160: sort_values('Strength', ascending=False) with the default
\* sort, which is not stable: every order of the rows by falling Strength,
\* rows of equal Strength in any order
SortedByStrength(rows) ==
    {[i \in 1..Len(rows) |-> rows[f[i]]] : f \in
        {g \in Orders(Len(rows)) :
            \A i, j \in 1..Len(rows) :
                i < j => rows[g[i]].Strength[1] * rows[g[j]].Strength[2]
                           >= rows[g[j]].Strength[1] * rows[g[i]].Strength[2]}}

\* calculate_correlations(df, target_col, top_n), lines 139-162: the
\* results it can return
calculate_correlations(frame, target_col, top_n) ==
    LET rows == CorrelationRows(frame, target_col)
    IN IF \E i \in 1..Len(rows) : rows[i].tag = "raise"
       THEN {[tag |-> "raise", error |-> "ValueError"]}
       ELSE {[tag |-> "ok", rows |-> SubSeq(sorted, 1, IF top_n < Len(sorted) THEN top_n
                                                       ELSE Len(sorted))] :
                sorted \in SortedByStrength(rows)}

\* the frames tried: the sales of n days, low, middle and high, and after
\* it some of these columns: lag_1 the sales themselves, oil_price falling
\* as they rise, is_holiday constant, yoy_growth off zero on the middle days
\* only (uncorrelated), day_of_week cycling, roll_std_30 present on three
\* days, dcoilwtico missing on the first day
SalesColumn(n) ==
    [i \in 1..n |-> IF 2 * i < n THEN Num(0) ELSE IF 2 * i > n + 2 THEN Num(2) ELSE Num(1)]

FeatureNames ==
    {"lag_1", "oil_price", "is_holiday", "yoy_growth", "day_of_week", "roll_std_30",
     "dcoilwtico"}

FeatureColumn(name, n) ==
    LET sales == SalesColumn(n)
    IN [i \in 1..n |->
          IF name = "lag_1" THEN sales[i]
          ELSE IF name = "oil_price" THEN Num(2 - sales[i][1])
          ELSE IF name = "is_holiday" THEN Num(0)
          ELSE IF name = "yoy_growth"
               THEN (IF 2 * i = n THEN Num(1) ELSE IF 2 * i = n + 2 THEN Num(0 - 1) ELSE Num(0))
          ELSE IF name = "day_of_week" THEN Num(i % 3)
          ELSE IF name = "roll_std_30" THEN (IF i <= 3 THEN Num(i % 2) ELSE NaN)
          ELSE (IF i = 1 THEN NaN ELSE sales[i])]

\* the sequences of at most k different names
RECURSIVE NameLists(_)
NameLists(k) ==
    IF k = 0 THEN {<<>>}
    ELSE NameLists(k - 1) \cup
         {Append(l, x) : l \in {m \in NameLists(k - 1) : Len(m) = k - 1},
                         x \in FeatureNames}

Frames ==
    {[i \in 1..(Len(l) + 1) |->
        IF i = 1 THEN [name |-> "sales", values |-> SalesColumn(n)]
        ELSE [name |-> l[i - 1], values |-> FeatureColumn(l[i - 1], n)]] :
     l \in {m \in NameLists(MaxFeatures) : \A i, j \in 1..Len(m) : i # j => m[i] # m[j]},
     n \in MinObs..(MinObs + 2)}

-----------------------------------------------------------------------------
(* train_xgboost and get_feature_importance of src/src/modeling.py *)

\* get_feature_columns, data_processing.py lines 95-103: the list itself
get_feature_columns ==
    <<"oil_price", "promo_count", "is_holiday", "is_weekend",
      "year", "month", "day_of_week", "quarter",
      "lag_1", "lag_7", "lag_30",
      "roll_mean_7", "roll_mean_30",
      "roll_std_7", "roll_std_30">>

\* train_xgboost(X_train, y_train), lines 20-50: the frame goes to
\* XGBRegressor.fit as it is.  A frame is its column names and its number
\* of rows (at least one), a target its length.  fit rejects a target whose
\* length is not the number of rows with xgboost's own error and learns one
\* importance per column of whatever frame it is given.
train_xgboost(X_train, y_train) ==
    IF y_train # X_train.rows
    THEN [tag |-> "raise", error |-> "XGBoostError"]
    ELSE [tag |-> "model", feature_names_in_ |-> X_train.columns]

\* sort_values("importance", ascending=False), line 129, with the default
\* sort, which is not stable: every order of the rows by falling importance,
\* rows of equal importance in any order
SortedByImportance(rows) ==
    {[i \in 1..Len(rows) |-> rows[f[i]]] : f \in
        {g \in Orders(Len(rows)) :
            \A i, j \in 1..Len(rows) :
                i < j => rows[g[i]].importance >= rows[g[j]].importance}}

\* get_feature_importance(model, feature_names), lines 111-131: the frames
\* it can return; the DataFrame constructor raises on columns of different
\* lengths
get_feature_importance(model, feature_names) ==
    IF Len(model.feature_importances_) # Len(feature_names)
    THEN {[tag |-> "raise", error |-> "ValueError"]}
    ELSE {[tag |-> "frame", rows |-> r] : r \in
            SortedByImportance([i \in 1..Len(feature_names) |->
                [feature |-> feature_names[i],
                 importance |-> model.feature_importances_[i]]])}

-----------------------------------------------------------------------------
(* get_trained_models under st.cache_resource, scripts/app.py 126-141 *)

MaxHorizon == 2

\* training frames of one or two rows: their columns and their lag_1 values
TrainHistories == {<<Num(1)>>, <<Num(1), Num(2)>>, <<Num(2), Num(2)>>}
TrainFrames ==
    {[columns |-> c, rows |-> Len(l), lag_1 |-> l] :
        c \in {<<"lag_1">>, <<"oil_price", "lag_1">>}, l \in TrainHistories}

\* lines 129-139, the body: the fitted model and the baseline, or the
\* exception of train_xgboost or of np.pad
get_trained_models(X_train, y_train, feature_list, test_size) ==
    LET xgb_model == train_xgboost(X_train, y_train)
        baseline_pred == BaselinePred(X_train.lag_1, test_size)
    IN IF xgb_model.tag = "raise" \/ baseline_pred.err
       THEN [tag |-> "raise"]
       ELSE [tag |-> "return", xgb_model |-> xgb_model,
             baseline_pred |-> baseline_pred.pred]

\* lines 126-127: st.cache_resource hashes the arguments of the call, leaving
\* out every parameter whose name begins with an underscore (_X_train,
\* _y_train, _feature_cols): the key is test_size alone
CacheKey(X_train, y_train, feature_list, test_size) == <<test_size>>

CacheKeys == {<<k>> : k \in 1..MaxHorizon}

-----------------------------------------------------------------------------
(* ForecastDatabase of src/src/database.py.  A TEXT cell is <<>> (NULL) or  *)
(* <<s>>; a REAL cell is a number cell, and sqlite3 binds None and NaN as   *)
(* NULL.  A table is the sequence of its committed rows in rowid order.    *)
(* The columns id, created_at, actual_value, forecast_days, revenue_impact, *)
(* oil_change and the feature columns of historical_sales are not part of  *)
(* the modelled rows; the date text of day d is d.                         *)

MaxStored == 2
MaxOpen == 2

Null == <<>>
Text(str) == <<str>>

\* lines 119 and 146: a str is stored as it is, a Timestamp as the text of
\* its day, '%Y-%m-%d'
DateStr(date) == IF date.type = "str" THEN date.text ELSE date.day

\* lines 53, 47-48: UNIQUE(date, model_type, scenario_name); SQLite holds
\* two NULLs to be distinct, so a row with a NULL in one of these columns
\* conflicts with no row
ForecastConflict(r, q) ==
    /\ r.date = q.date
    /\ r.model_type = q.model_type /\ r.model_type # Null
    /\ r.scenario_name = q.scenario_name /\ r.scenario_name # Null

\* line 61: scenario_name TEXT UNIQUE NOT NULL
ScenarioConflict(r, q) == r.scenario_name = q.scenario_name

\* line 89: date TEXT UNIQUE NOT NULL
HistoricalConflict(r, q) == r.date = q.date

\* the NOT NULL columns of each table, lines 47-48, 61, 89-90
ForecastNotNull(r) == r.forecast_value # NaN
ScenarioNotNull(r) == r.scenario_name # Null
HistoricalNotNull(r) == r.sales # NaN

\* INSERT OR REPLACE of one row: the rows it conflicts with are deleted and
\* the row is inserted under a new rowid
ReplaceForecast(tbl, row) ==
    Append(SelectSeq(tbl, LAMBDA r : ~ForecastConflict(r, row)), row)
ReplaceScenario(tbl, row) ==
    Append(SelectSeq(tbl, LAMBDA r : ~ScenarioConflict(r, row)), row)
ReplaceHistorical(tbl, row) ==
    Append(SelectSeq(tbl, LAMBDA r : ~HistoricalConflict(r, row)), row)

\* lines 145-156: the loop over the batch, inside one transaction, until a
\* row violates NOT NULL (sqlite3.IntegrityError)
RECURSIVE WriteForecasts(_, _, _)
WriteForecasts(tbl, rows, i) ==
    IF i > Len(rows) THEN [failed |-> FALSE, written |-> tbl]
    ELSE IF ~ForecastNotNull(rows[i]) THEN [failed |-> TRUE, written |-> tbl]
    ELSE WriteForecasts(ReplaceForecast(tbl, rows[i]), rows, i + 1)

\* lines 294-306
RECURSIVE WriteHistorical(_, _, _)
WriteHistorical(tbl, rows, i) ==
    IF i > Len(rows) THEN [failed |-> FALSE, written |-> tbl]
    ELSE IF ~HistoricalNotNull(rows[i]) THEN [failed |-> TRUE, written |-> tbl]
    ELSE WriteHistorical(ReplaceHistorical(tbl, rows[i]), rows, i + 1)

\* lines 180-185
WriteScenario(tbl, row) ==
    IF ~ScenarioNotNull(row) THEN [failed |-> TRUE, written |-> tbl]
    ELSE [failed |-> FALSE, written |-> ReplaceScenario(tbl, row)]

\* a variant in which every statement is committed as it runs
CommittedAsWritten(stored, written) == written

\* the table after a call that raised inside its loop: conn.commit() was
\* not reached, and a connection that goes away with an open transaction
\* rolls it back
UncommittedLost(stored, written) == stored

\* the statements of one save call on its own connection.  `locked`: some
\* other open connection holds a write transaction, so the first INSERT
\* gets no lock (sqlite3.OperationalError: database is locked).  No path
\* has try/finally: an exception leaves the connection open, with its
\* write transaction if an INSERT had got the lock.
Transaction(locked, statements, stored, w) ==
    IF statements = 0
    THEN [outcome |-> "ok", table |-> stored, left_open |-> <<>>]
    ELSE IF locked
    THEN [outcome |-> "raise", error |-> "OperationalError", table |-> stored,
          left_open |-> <<[lock |-> FALSE]>>]
    ELSE IF w.failed
    THEN [outcome |-> "raise", error |-> "IntegrityError",
          table |-> UncommittedLost(stored, w.written),
          left_open |-> <<[lock |-> TRUE]>>]
    ELSE [outcome |-> "ok", table |-> w.written, left_open |-> <<>>]

\* lines 241-255: a filter is added when its argument is truthy; None and
\* the empty string are not
Truthy(arg) == arg # Null /\ arg # Text("")

\* the WHERE clause built by lines 238-255; a comparison with a NULL cell
\* is not true.  A date argument is None or the text of a day, which is
\* truthy.
Selected(r, scenario_name, model_type, start_date, end_date) ==
    /\ Truthy(scenario_name) => r.scenario_name = scenario_name
    /\ Truthy(model_type) => r.model_type = model_type
    /\ start_date # Null => r.date >= start_date[1]
    /\ end_date # Null => r.date <= end_date[1]

\* line 257: ORDER BY date; SQL leaves the order of rows of one date open
SortedByDate(rows) ==
    {[i \in 1..Len(rows) |-> rows[f[i]]] : f \in
        {g \in Orders(Len(rows)) :
            \A i, j \in 1..Len(rows) : i < j => rows[g[i]].date <= rows[g[j]].date}}

\* get_forecasts, lines 219-262: the frames it can return
get_forecasts(tbl, scenario_name, model_type, start_date, end_date) ==
    SortedByDate(SelectSeq(tbl,
        LAMBDA r : Selected(r, scenario_name, model_type, start_date, end_date)))

\* the arguments the calls are tried on: single forecasts of day 1 under a
\* named or a NULL scenario, batches of at most two rows (an empty one, one
\* with a row that has no value, one with two rows of one day), and the
\* filters of the Database page
Stamp(d) == [type |-> "Timestamp", day |-> d, hour |-> 0]
DateArgs == {[type |-> "str", text |-> 1], [type |-> "Timestamp", day |-> 1, hour |-> 12]}
StoredValues == {NaN, Num(10), Num(20)}
ScenarioNames == {Text("baseline"), Null}
ModelTypes == {Text("XGBoost")}
PromoSettings == {0, 100}
Batches ==
    {<<>>,
     <<[date |-> Stamp(1), value |-> Num(10)]>>,
     <<[date |-> Stamp(1), value |-> NaN]>>,
     <<[date |-> Stamp(1), value |-> Num(10)], [date |-> Stamp(2), value |-> Num(10)]>>,
     <<[date |-> Stamp(2), value |-> Num(10)], [date |-> Stamp(1), value |-> NaN]>>,
     <<[date |-> Stamp(1), value |-> Num(10)], [date |-> Stamp(1), value |-> Num(20)]>>}
Filters ==
    {[scenario_name |-> sn, model_type |-> Null, start_date |-> Null, end_date |-> Null] :
        sn \in {Null, Text(""), Text("baseline")}}
    \cup {[scenario_name |-> Null, model_type |-> Text("XGBoost"),
           start_date |-> lo, end_date |-> hi] :
             lo \in {Null, <<2>>}, hi \in {Null, <<1>>, <<2>>}}
Queries == {"SELECT * FROM forecasts", "SELECT * FORM forecasts"}

-----------------------------------------------------------------------------
(* evaluate_model of src/src/modeling.py, on scikit-learn's metrics *)

\* sklearn's mean_absolute_percentage_error: the mean of
\* |error| / max(|y_true|, eps).  An error over eps = 2.2e-16, some 10^15
\* times the error, is kept as an infinity.
MeanAbsolutePercentageError(y_true, y_pred) ==
    FMean([i \in 1..Len(y_true) |->
             IF y_true[i] = 0
             THEN (IF y_pred[i] = 0 THEN Num(0) ELSE PosInf)
             ELSE <<Abs(y_true[i] - y_pred[i]), Abs(y_true[i])>>])

\* sklearn's r2_score: NaN (with a warning) for fewer than two samples;
\* 1 - SS_res / SS_tot, and for a constant y_true 1 when the residuals are
\* all zero and 0 otherwise
R2Score(y_true, y_pred) ==
    LET n == Len(y_true)
        ss_res == SumInts([i \in 1..n |-> (y_true[i] - y_pred[i]) * (y_true[i] - y_pred[i])])
        ss_tot_n == SumSqDevTimesN(y_true)
    IN IF n < 2 THEN NaN
       ELSE IF ss_tot_n # 0 THEN <<ss_tot_n - n * ss_res, ss_tot_n>>
       ELSE IF ss_res # 0 THEN Num(0)
       ELSE Num(1)

\* |a| of a number
FAbs(a) == IF a = NaN THEN NaN ELSE <<Abs(a[1]), a[2]>>

\* evaluate_model(y_true, y_pred), lines 96-108; scikit-learn raises
\* ValueError for arrays of different lengths and for empty arrays.  RMSE
\* is kept squared.
evaluate_model(y_true, y_pred) ==
    LET n == Len(y_true)
        mean_actual == Mean(y_true)
        mean_predicted == Mean(y_pred)
    IN IF n # Len(y_pred) \/ n = 0 THEN [tag |-> "raise", error |-> "ValueError"]
       ELSE [tag |-> "ok",
             MAPE |-> FScale(MeanAbsolutePercentageError(y_true, y_pred), 100),
             MAE |-> Mean([i \in 1..n |-> Abs(y_true[i] - y_pred[i])]),
             RMSE |-> Mean([i \in 1..n |-> (y_true[i] - y_pred[i]) * (y_true[i] - y_pred[i])]),
             R2 |-> R2Score(y_true, y_pred),
             Mean_Actual |-> mean_actual,
             Mean_Predicted |-> mean_predicted,
             Error_Percentage |->
                 FScale(FDiv(FAbs(FSub(mean_predicted, mean_actual)), mean_actual), 100)]

\* the calls tried: samples of at most MaxSample values
Confidences == {90, 95, 99}
SampleValues == {0 - 2, 0, 3}
Samples(S, n) == UNION {[1..k -> S] : k \in 0..n}
ActualValues == {0, 4}
PredictedValues == {0, 3, 5}

CICalls ==
    {[fn |-> "calculate_confidence_interval", values |-> v, confidence |-> c] :
        v \in Samples(SampleValues, MaxSample), c \in Confidences}
AccuracyCalls ==
    UNION {{[fn |-> "calculate_forecast_accuracy_metrics", actual |-> a, predicted |-> q] :
              a \in [1..k -> ActualValues], q \in [1..k -> PredictedValues]} :
           k \in 0..MaxSample}

ForecastValues == {0, 7}
IntervalCalls ==
    {[fn |-> "forecast_confidence_intervals", forecasts |-> f, historical_errors |-> e,
      confidence |-> c] :
        f \in Samples(ForecastValues, MaxSample), e \in Samples(SampleValues, MaxSample),
        c \in Confidences}
EvalValues == {0, 4, 5}
EvalCalls ==
    UNION {{[fn |-> "evaluate_model", y_true |-> a, y_pred |-> q] :
              a \in [1..k -> EvalValues], q \in [1..k -> EvalValues]} :
           k \in 0..MaxSample}

CorrelationCalls ==
    {[fn |-> "calculate_correlations", frame |-> f, target_col |-> "sales", top_n |-> t] :
        f \in Frames, t \in 1..MaxFeatures}

ImportanceScores == 0..2

\* a fitted model carries one importance per training column; the names are
\* the first columns of get_feature_columns
ImportanceCalls ==
    UNION {{[fn |-> "get_feature_importance",
             model |-> [feature_importances_ |-> s],
             feature_names |-> SubSeq(get_feature_columns, 1, k)] :
               s \in [1..m -> ImportanceScores]} :
           k \in 0..MaxFeatures, m \in 0..MaxFeatures}

\* training frames: leading columns of get_feature_columns, with or without
\* one more column of the engineered table, and a target of any length
ExtraColumns == {"none", "yoy_growth", "sales"}
TrainCalls ==
    {[fn |-> "train_xgboost",
      X_train |-> [columns |-> IF x = "none" THEN SubSeq(get_feature_columns, 1, k)
                               ELSE Append(SubSeq(get_feature_columns, 1, k), x),
                   rows |-> n],
      y_train |-> m] :
        k \in 1..MaxFeatures, x \in ExtraColumns, n \in 1..MaxSample, m \in 1..MaxSample}

Calls ==
    CICalls \cup AccuracyCalls \cup IntervalCalls \cup EvalCalls \cup CorrelationCalls
        \cup ImportanceCalls \cup TrainCalls

-----------------------------------------------------------------------------
(* The dashboard script, scripts/app.py lines 95-141 *)

NoTable == EmptyTable
NoCall == [fn |-> "none"]
NoBaseline == [err |-> FALSE, pred |-> <<>>]

\* the model cache and the database before the session's first call
CacheIdle ==
    /\ model_cache = [k \in CacheKeys |-> NoResult]
    /\ trained = NoCall
DbIdle ==
    /\ db_forecasts = <<>>
    /\ db_scenarios = <<>>
    /\ db_historical = <<>>
    /\ db_connections = <<>>
    /\ db_call = NoCall
StoreIdle == CacheIdle /\ DbIdle

\* the cutoffs tried: around the short histories and inside the long ones
Cutoffs == (0..(MaxSmall + 1)) \cup {Lag30 + 1, YoY + 1}

Init ==
    /\ pc = "start"
    /\ sales_raw = <<>>
    /\ oil = <<>>
    /\ holidays = <<>>
    /\ df_pre = NoTable
    /\ df = NoTable
    /\ split_date = 0
    /\ train = NoTable
    /\ test = NoTable
    /\ baseline = NoBaseline
    /\ X_test = NoTable
    /\ promo_change = 0
    /\ oil_change = 0
    /\ scenario_df = NoTable
    /\ stat_df = <<>>
    /\ promo_result = NoResult
    /\ holiday_result = NoResult
    /\ call = NoCall
    /\ ret = NoResult
    /\ StoreIdle

\* load_data: read the three files.  The long histories come in fewer
\* variants than the short ones.
LoadData ==
    /\ pc = "start"
    /\ \E n \in Sizes, seed \in 0..MaxSeed, gap \in {0, 2}, late \in BOOLEAN,
          extra \in {0, 1}, ok \in OilKinds, hk \in HolKinds :
          /\ n > MaxSmall => seed = 0 /\ extra = 0 /\ hk = "some" /\ ok \in {"weekdays", "dup"}
          /\ sales_raw' = MakeSales(n, seed, IF late /\ gap # 0 THEN n - 1 ELSE gap, extra)
          /\ oil' = MakeOil(n, ok)
          /\ holidays' = MakeHolidays(n, hk)
    /\ pc' = "loaded"
    /\ UNCHANGED <<df_pre, df, split_date, train, test, baseline, X_test, scenVars,
                   statVars, callVars, storeVars>>

\* line 103: df = engineer_features(sales_raw, oil, holidays)
EngineerFeatures ==
    /\ pc = "loaded"
    /\ df_pre' = DerivedColumns(sales_raw, oil, holidays, LastDate)
    /\ df' = Impute(df_pre')
    /\ pc' = "featured"
    /\ UNCHANGED <<sales_raw, oil, holidays, split_date, train, test, baseline, X_test,
                   scenVars, statVars, callVars, storeVars>>

\* lines 117-121: train, test = split_train_test(df, split_date) and
\* X_test = test[feature_cols]
SplitTrainTest ==
    /\ pc = "featured"
    /\ \E c \in Cutoffs :
          /\ split_date' = c
          /\ train' = TrainPart(df, c)
          /\ test' = TestPart(df, c)
          /\ X_test' = Columns(TestPart(df, c), feature_cols)
    /\ pc' = "split"
    /\ UNCHANGED <<sales_raw, oil, holidays, df_pre, df, baseline, scenVars, statVars,
                   callVars, storeVars>>

\* line 141: get_trained_models(X_train, y_train, feature_cols, len(X_test))
GetTrainedModels ==
    /\ pc = "split"
    /\ baseline' = BaselinePred(train.lag_1, Len(test.date))
    /\ pc' = "trained"
    /\ UNCHANGED <<sales_raw, oil, holidays, df_pre, df, split_date, train, test, X_test,
                   scenVars, statVars, callVars, storeVars>>

\* lines 269-271 of the Forecasting page, under the sliders of lines 174-181
ApplyScenario ==
    /\ pc = "trained"
    /\ \E p \in PromoChanges, o \in OilChanges :
          /\ promo_change' = p
          /\ oil_change' = o
          /\ X_test' = ScenarioTransform(X_test, p, o).X_test
          /\ scenario_df' = ScenarioTransform(X_test, p, o).scenario_df
    /\ pc' = "scenario"
    /\ UNCHANGED <<sales_raw, oil, holidays, df_pre, df, split_date, train, test, baseline,
                   statVars, callVars, storeVars>>

Next == LoadData \/ EngineerFeatures \/ SplitTrainTest \/ GetTrainedModels \/ ApplyScenario

Spec == Init /\ [][Next]_vars

-----------------------------------------------------------------------------
(* The two-group tests applied to a table (the Statistical Analysis page,    *)
(* scripts/app.py lines 533 and 553)                                           *)

InitStats ==
    /\ pc = "stats"
    /\ sales_raw = <<>>
    /\ oil = <<>>
    /\ holidays = <<>>
    /\ df_pre = NoTable
    /\ df = NoTable
    /\ split_date = 0
    /\ train = NoTable
    /\ test = NoTable
    /\ baseline = NoBaseline
    /\ X_test = NoTable
    /\ promo_change = 0
    /\ oil_change = 0
    /\ scenario_df = NoTable
    /\ stat_df \in StatTables
    /\ promo_result = NoResult
    /\ holiday_result = NoResult
    /\ call = NoCall
    /\ ret = NoResult
    /\ StoreIdle

\* promo_results = test_promotion_impact(df)
TestPromotionImpact ==
    /\ pc = "stats"
    /\ promo_result = NoResult
    /\ promo_result' = test_promotion_impact(stat_df)
    /\ UNCHANGED <<pipeVars, stat_df, holiday_result, callVars, storeVars>>

\* holiday_results = test_holiday_impact(df)
TestHolidayImpact ==
    /\ pc = "stats"
    /\ holiday_result = NoResult
    /\ holiday_result' = test_holiday_impact(stat_df)
    /\ UNCHANGED <<pipeVars, stat_df, promo_result, callVars, storeVars>>

NextStats == TestPromotionImpact \/ TestHolidayImpact

SpecStats == InitStats /\ [][NextStats]_vars

-----------------------------------------------------------------------------
(* The other statistics, each applied once to the arguments of a call *)

InitCalls ==
    /\ pc = "call"
    /\ sales_raw = <<>>
    /\ oil = <<>>
    /\ holidays = <<>>
    /\ df_pre = NoTable
    /\ df = NoTable
    /\ split_date = 0
    /\ train = NoTable
    /\ test = NoTable
    /\ baseline = NoBaseline
    /\ X_test = NoTable
    /\ promo_change = 0
    /\ oil_change = 0
    /\ scenario_df = NoTable
    /\ stat_df = <<>>
    /\ promo_result = NoResult
    /\ holiday_result = NoResult
    /\ call \in Calls
    /\ ret = NoResult
    /\ StoreIdle

CalculateConfidenceInterval ==
    /\ call.fn = "calculate_confidence_interval"
    /\ ret = NoResult
    /\ ret' = calculate_confidence_interval(call.values, call.confidence)
    /\ UNCHANGED <<pipeVars, statVars, call, storeVars>>

CalculateForecastAccuracyMetrics ==
    /\ call.fn = "calculate_forecast_accuracy_metrics"
    /\ ret = NoResult
    /\ ret' = calculate_forecast_accuracy_metrics(call.actual, call.predicted)
    /\ UNCHANGED <<pipeVars, statVars, call, storeVars>>

ForecastConfidenceIntervals ==
    /\ call.fn = "forecast_confidence_intervals"
    /\ ret = NoResult
    /\ ret' = forecast_confidence_intervals(call.forecasts, call.historical_errors,
                                            call.confidence)
    /\ UNCHANGED <<pipeVars, statVars, call, storeVars>>

EvaluateModel ==
    /\ call.fn = "evaluate_model"
    /\ ret = NoResult
    /\ ret' = evaluate_model(call.y_true, call.y_pred)
    /\ UNCHANGED <<pipeVars, statVars, call, storeVars>>

CalculateCorrelations ==
    /\ call.fn = "calculate_correlations"
    /\ ret = NoResult
    /\ ret' \in calculate_correlations(call.frame, call.target_col, call.top_n)
    /\ UNCHANGED <<pipeVars, statVars, call, storeVars>>

GetFeatureImportance ==
    /\ call.fn = "get_feature_importance"
    /\ ret = NoResult
    /\ ret' \in get_feature_importance(call.model, call.feature_names)
    /\ UNCHANGED <<pipeVars, statVars, call, storeVars>>

TrainXgboost ==
    /\ call.fn = "train_xgboost"
    /\ ret = NoResult
    /\ ret' = train_xgboost(call.X_train, call.y_train)
    /\ UNCHANGED <<pipeVars, statVars, call, storeVars>>

NextCalls ==
    \/ GetFeatureImportance
    \/ TrainXgboost
    \/ CalculateCorrelations
    \/ CalculateConfidenceInterval
    \/ CalculateForecastAccuracyMetrics
    \/ ForecastConfidenceIntervals
    \/ EvaluateModel

SpecCalls == InitCalls /\ [][NextCalls]_vars

-----------------------------------------------------------------------------
(* A server process that runs the script again and again: calls of         *)
(* get_trained_models on the training data of each run                     *)

InitCache ==
    /\ pc = "cache"
    /\ sales_raw = <<>>
    /\ oil = <<>>
    /\ holidays = <<>>
    /\ df_pre = NoTable
    /\ df = NoTable
    /\ split_date = 0
    /\ train = NoTable
    /\ test = NoTable
    /\ baseline = NoBaseline
    /\ X_test = NoTable
    /\ promo_change = 0
    /\ oil_change = 0
    /\ scenario_df = NoTable
    /\ stat_df = <<>>
    /\ promo_result = NoResult
    /\ holiday_result = NoResult
    /\ call = NoCall
    /\ ret = NoResult
    /\ StoreIdle

\* line 141 under the decorator of line 126: a hit returns the cached value
\* without running the body; a miss runs it and caches what it returns (an
\* exception is not cached)
CallGetTrainedModels ==
    /\ pc = "cache"
    /\ \E X \in TrainFrames, k \in 1..MaxHorizon :
          LET key == CacheKey(X, X.rows, get_feature_columns, k)
              hit == key \in DOMAIN model_cache /\ model_cache[key] # NoResult
              value == IF hit THEN model_cache[key]
                       ELSE get_trained_models(X, X.rows, get_feature_columns, k)
          IN /\ trained' = [fn |-> "get_trained_models", X_train |-> X, y_train |-> X.rows,
                            test_size |-> k, hit |-> hit, value |-> value]
             /\ model_cache' =
                    IF ~hit /\ value.tag = "return" /\ key \in DOMAIN model_cache
                    THEN [model_cache EXCEPT ![key] = value]
                    ELSE model_cache
    /\ UNCHANGED <<pipeVars, statVars, callVars, dbVars>>

\* st.cache_resource.clear(), the "Clear cache" entry of the app menu
ClearCache ==
    /\ pc = "cache"
    /\ \E k \in CacheKeys : model_cache[k] # NoResult
    /\ model_cache' = [k \in CacheKeys |-> NoResult]
    /\ UNCHANGED <<pipeVars, statVars, callVars, trained, dbVars>>

NextCache == CallGetTrainedModels \/ ClearCache

SpecCache == InitCache /\ [][NextCache]_vars

-----------------------------------------------------------------------------
(* A session of calls on one ForecastDatabase, as the Forecasting and      *)
(* Database pages of scripts/app.py make them (lines 149-162, 380-393,     *)
(* 688-752)                                                                *)

InitDb ==
    /\ pc = "db"
    /\ sales_raw = <<>>
    /\ oil = <<>>
    /\ holidays = <<>>
    /\ df_pre = NoTable
    /\ df = NoTable
    /\ split_date = 0
    /\ train = NoTable
    /\ test = NoTable
    /\ baseline = NoBaseline
    /\ X_test = NoTable
    /\ promo_change = 0
    /\ oil_change = 0
    /\ scenario_df = NoTable
    /\ stat_df = <<>>
    /\ promo_result = NoResult
    /\ holiday_result = NoResult
    /\ call = NoCall
    /\ ret = NoResult
    /\ StoreIdle

\* some open connection holds a write transaction
Locked == \E i \in 1..Len(db_connections) : db_connections[i].lock

\* the sessions explored keep at most MaxStored rows and MaxOpen open
\* connections
WithinBounds(f, sc, h, c) ==
    /\ Len(f) + Len(sc) + Len(h) <= MaxStored
    /\ Len(c) <= MaxOpen

ForecastRow(b, model_type, scenario_name) ==
    [date |-> DateStr(b.date), forecast_value |-> b.value,
     model_type |-> model_type, scenario_name |-> scenario_name]

HistoricalRow(b) == [date |-> DateStr(b.date), sales |-> b.value]

\* save_forecast, lines 100-128
SaveForecast ==
    /\ pc = "db"
    /\ \E date \in DateArgs, v \in StoredValues, m \in ModelTypes, sn \in ScenarioNames :
          LET row == ForecastRow([date |-> date, value |-> v], m, sn)
              t == Transaction(Locked, 1, db_forecasts,
                               WriteForecasts(db_forecasts, <<row>>, 1))
          IN /\ WithinBounds(t.table, db_scenarios, db_historical,
                             db_connections \o t.left_open)
             /\ db_forecasts' = t.table
             /\ db_connections' = db_connections \o t.left_open
             /\ db_call' = [fn |-> "save_forecast", row |-> row, outcome |-> t.outcome]
    /\ UNCHANGED <<pipeVars, statVars, callVars, cacheVars, db_scenarios, db_historical>>

\* save_bulk_forecasts, lines 130-159
SaveBulkForecasts ==
    /\ pc = "db"
    /\ \E batch \in Batches, m \in ModelTypes, sn \in {Text("baseline")} :
          LET rows == [i \in 1..Len(batch) |-> ForecastRow(batch[i], m, sn)]
              t == Transaction(Locked, Len(rows), db_forecasts,
                               WriteForecasts(db_forecasts, rows, 1))
          IN /\ WithinBounds(t.table, db_scenarios, db_historical,
                             db_connections \o t.left_open)
             /\ db_forecasts' = t.table
             /\ db_connections' = db_connections \o t.left_open
             /\ db_call' = [fn |-> "save_bulk_forecasts", rows |-> rows,
                            before |-> db_forecasts, outcome |-> t.outcome]
    /\ UNCHANGED <<pipeVars, statVars, callVars, cacheVars, db_scenarios, db_historical>>

\* save_scenario, lines 161-187
SaveScenario ==
    /\ pc = "db"
    /\ \E sn \in ScenarioNames, p \in PromoSettings :
          LET row == [scenario_name |-> sn, promo_change |-> p]
              t == Transaction(Locked, 1, db_scenarios, WriteScenario(db_scenarios, row))
          IN /\ WithinBounds(db_forecasts, t.table, db_historical,
                             db_connections \o t.left_open)
             /\ db_scenarios' = t.table
             /\ db_connections' = db_connections \o t.left_open
             /\ db_call' = [fn |-> "save_scenario", row |-> row, outcome |-> t.outcome]
    /\ UNCHANGED <<pipeVars, statVars, callVars, cacheVars, db_forecasts, db_historical>>

\* save_historical_sales, lines 283-309, as get_database calls it (app.py
\* 155-159, where an exception of the call is caught and dropped)
SaveHistoricalSales ==
    /\ pc = "db"
    /\ \E batch \in Batches :
          LET rows == [i \in 1..Len(batch) |-> HistoricalRow(batch[i])]
              t == Transaction(Locked, Len(rows), db_historical,
                               WriteHistorical(db_historical, rows, 1))
          IN /\ WithinBounds(db_forecasts, db_scenarios, t.table,
                             db_connections \o t.left_open)
             /\ db_historical' = t.table
             /\ db_connections' = db_connections \o t.left_open
             /\ db_call' = [fn |-> "save_historical_sales", rows |-> rows,
                            before |-> db_historical, outcome |-> t.outcome]
    /\ UNCHANGED <<pipeVars, statVars, callVars, cacheVars, db_forecasts, db_scenarios>>

\* get_forecasts, lines 219-262: the query is valid and reading needs no
\* write lock, so the call returns and closes its connection
GetForecasts ==
    /\ pc = "db"
    /\ \E f \in Filters :
          \E result \in get_forecasts(db_forecasts, f.scenario_name, f.model_type,
                                       f.start_date, f.end_date) :
              db_call' = [fn |-> "get_forecasts", scenario_name |-> f.scenario_name,
                          model_type |-> f.model_type, start_date |-> f.start_date,
                          end_date |-> f.end_date, outcome |-> "ok", result |-> result]
    /\ UNCHANGED <<pipeVars, statVars, callVars, cacheVars, db_forecasts, db_scenarios,
                   db_historical, db_connections>>

\* execute_query, lines 311-329, on the text the Database page's SQL box
\* holds: pandas raises DatabaseError on a statement SQLite cannot prepare,
\* and line 328 is not reached
ExecuteQuery ==
    /\ pc = "db"
    /\ \E query \in Queries :
          IF query = "SELECT * FROM forecasts"
          THEN /\ db_call' = [fn |-> "execute_query", query |-> query,
                              outcome |-> "ok", result |-> db_forecasts]
               /\ UNCHANGED db_connections
          ELSE /\ Len(db_connections) < MaxOpen
               /\ db_call' = [fn |-> "execute_query", query |-> query, outcome |-> "raise"]
               /\ db_connections' = Append(db_connections, [lock |-> FALSE])
    /\ UNCHANGED <<pipeVars, statVars, callVars, cacheVars, db_forecasts, db_scenarios,
                   db_historical>>

\* the interpreter frees a connection object that nothing refers to any
\* more: sqlite3 closes it, and an open transaction is rolled back
Finalize ==
    /\ pc = "db"
    /\ \E i \in 1..Len(db_connections) :
          db_connections' = SubSeq(db_connections, 1, i - 1)
                              \o SubSeq(db_connections, i + 1, Len(db_connections))
    /\ UNCHANGED <<pipeVars, statVars, callVars, cacheVars, db_forecasts, db_scenarios,
                   db_historical, db_call>>

NextDb ==
    \/ SaveForecast
    \/ SaveBulkForecasts
    \/ SaveScenario
    \/ SaveHistoricalSales
    \/ GetForecasts
    \/ ExecuteQuery
    \/ Finalize

SpecDb == InitDb /\ [][NextDb]_vars

-----------------------------------------------------------------------------
(* Properties of the feature table *)

HasDate(d) == \E i \in 1..Len(sales_raw) : sales_raw[i].date = d
\* the total sales of calendar day d in train.csv
SalesOn(d) == GroupSum(sales_raw, "sales", d)
NRows == Len(df.date)

\* C1: for every date d with at least 365 days of prior history, lag_30[d] is
\* the sales of day d-30 and roll_mean_7[d] is the mean of the sales of the
\* seven days d-7..d-1.
C1_LagsFollowCalendar ==
    pc = "featured" =>
        \A i \in 1..NRows :
            LET d == df.date[i]
            IN d - df.date[1] >= YoY =>
                 /\ HasDate(d - Lag30) => NumEq(df.lag_30[i], Num(SalesOn(d - Lag30)))
                 /\ (\A k \in 1..Win7 : HasDate(d - k)) =>
                        NumEq(df.roll_mean_7[i],
                              <<SumInts([k \in 1..Win7 |-> SalesOn(d - k)]), Win7>>)

\* the input with the sales of day d raised by one (on the first row of the day)
BumpSales(sr, d) ==
    LET first == CHOOSE j \in 1..Len(sr) :
                    sr[j].date = d /\ \A k \in 1..(j - 1) : sr[k].date # d
    IN [sr EXCEPT ![first].sales = @ + 1]

LagRollColumns ==
    {"lag_1", "lag_7", "lag_30", "roll_mean_7", "roll_mean_30", "roll_std_7", "roll_std_30"}

\* C2: the lag and rolling features of row d do not depend on sales[d]: an
\* input that differs only in the sales of day d gives the same lag and
\* rolling features at the rows of day d.
C2_NoTargetLeak ==
    pc = "featured" =>
        \A i \in 1..NRows :
            LET other == engineer_features(BumpSales(sales_raw, df.date[i]),
                                           oil, holidays, LastDate)
            IN \A c \in LagRollColumns : SameCell(other[c][i], df[c][i])

\* C3: after the imputation pass every cell that the derived columns left
\* undefined holds the nearest later defined value of its column, else the
\* nearest earlier one, else 0; a defined cell is kept; no cell is missing.
ImputedCell(pre, out, i) ==
    IF \E j \in i..Len(pre) : pre[j] # NaN
    THEN \E j \in i..Len(pre) :
            /\ pre[j] # NaN
            /\ \A k \in i..(j - 1) : pre[k] = NaN
            /\ out[i] = pre[j]
    ELSE IF \E j \in 1..i : pre[j] # NaN
    THEN \E j \in 1..i :
            /\ pre[j] # NaN
            /\ \A k \in (j + 1)..i : pre[k] = NaN
            /\ out[i] = pre[j]
    ELSE out[i] = Num(0)

C4_OneRowPerDate ==
    pc = "featured" =>
        /\ \A i \in 1..NRows : HasDate(df.date[i])
        /\ \A d \in 1..LastDate : HasDate(d) => \E i \in 1..NRows : df.date[i] = d
        /\ \A i \in 1..(NRows - 1) : df.date[i] < df.date[i + 1]

-----------------------------------------------------------------------------
(* Properties of the split and of the baseline *)

\* the rows of a table picked by a set of row numbers, in the table's order
Pick(tbl, S) ==
    LET idx == SelectSeq([i \in 1..Len(tbl.date) |-> i], LAMBDA i : i \in S)
    IN [c \in DOMAIN tbl |-> [k \in 1..Len(idx) |-> tbl[c][idx[k]]]]

SameTable(a, b) ==
    /\ DOMAIN a = DOMAIN b
    /\ \A c \in DOMAIN a :
          /\ Len(a[c]) = Len(b[c])
          /\ \A k \in 1..Len(a[c]) : a[c][k] = b[c][k]

\* C5: train is exactly the rows dated <= cutoff and test exactly the rows
\* dated >= cutoff; every row is in one of them, and only the rows dated
\* cutoff are in both.
C5_SplitInclusive ==
    pc = "split" =>
        LET early == {i \in 1..NRows : df.date[i] <= split_date}
            late == {i \in 1..NRows : df.date[i] >= split_date}
        IN /\ SameTable(train, Pick(df, early))
           /\ SameTable(test, Pick(df, late))
           /\ Len(train.date) + Len(test.date)
                = NRows + Cardinality({i \in 1..NRows : df.date[i] = split_date})

\* a split at a date of the table, with rows before it and rows after it
C5_Witness ==
    /\ pc = "split"
    /\ \E i, j, k \in 1..NRows :
          /\ df.date[i] < split_date
          /\ df.date[j] = split_date
          /\ df.date[k] > split_date
    /\ train.date[Len(train.date)] = split_date
    /\ test.date[1] = split_date

\* C6: the baseline forecast of each test date is that date's lag_1 feature,
\* the sales of the preceding day.
C6_BaselineIsLagOfTestDate ==
    (pc = "trained" /\ ~baseline.err) =>
        \A i \in 1..Len(test.date) :
            i <= Len(baseline.pred) /\ SameCell(baseline.pred[i], test.lag_1[i])

\* C7: the returned baseline has exactly test_size elements; when the
\* horizon exceeds the lag history, the history comes first and the missing
\* tail repeats its last value.
C7_BaselineLength ==
    (pc = "trained" /\ ~baseline.err) =>
        LET hist == train.lag_1
            test_size == Len(test.date)
        IN /\ Len(baseline.pred) = test_size
           /\ test_size > Len(hist) =>
                 /\ \A i \in 1..Len(hist) : baseline.pred[i] = hist[i]
                 /\ \A i \in (Len(hist) + 1)..test_size : baseline.pred[i] = hist[Len(hist)]

\* a horizon longer than a history whose last value is not zero
C7_Witness ==
    /\ pc = "trained"
    /\ ~baseline.err
    /\ Len(train.lag_1) > 0
    /\ Len(test.date) > Len(train.lag_1) + 1
    /\ train.lag_1[Len(train.lag_1)] # Num(0)
    /\ Len(baseline.pred) = Len(test.date)

-----------------------------------------------------------------------------
(* Properties of the two-group tests *)

PromoGroup == SalesOf(SelectSeq(stat_df, LAMBDA r : r.promo_count > 0))
NoPromoGroup == SalesOf(SelectSeq(stat_df, LAMBDA r : r.promo_count = 0))
HolidayGroup == SalesOf(SelectSeq(stat_df, LAMBDA r : r.is_holiday = 1))
RegularGroup == SalesOf(SelectSeq(stat_df, LAMBDA r : r.is_holiday = 0))

\* C8: both tests return an error-tagged result whenever one of their two
\* groups is empty.
C8_ErrorOnEmptyGroup ==
    /\ (promo_result # NoResult /\ (Len(PromoGroup) = 0 \/ Len(NoPromoGroup) = 0))
          => promo_result.tag = "error"
    /\ (holiday_result # NoResult /\ (Len(HolidayGroup) = 0 \/ Len(RegularGroup) = 0))
          => holiday_result.tag = "error"

\* C9: both tests return an error-tagged result whenever the mean sales of
\* group B, the denominator of the lift, is zero.
C9_ErrorOnZeroDenominator ==
    /\ (promo_result # NoResult /\ NumEq(Mean(NoPromoGroup), Num(0)))
          => promo_result.tag = "error"
    /\ (holiday_result # NoResult /\ NumEq(Mean(RegularGroup), Num(0)))
          => holiday_result.tag = "error"

\* C10: the effect size is "large" when |d| >= 0.8, "medium" when
\* 0.5 <= |d| < 0.8 and "small" otherwise, the boundaries included.
C10_EffectSizeThresholds ==
    (promo_result # NoResult /\ promo_result.tag = "ok") =>
        LET sq == promo_result.cohens_d.sq
        IN promo_result.effect_size =
              IF sq # NaN /\ (sq[2] = 0 \/ 25 * sq[1] >= 16 * sq[2]) THEN "large"
              ELSE IF sq # NaN /\ 4 * sq[1] >= sq[2] THEN "medium"
              ELSE "small"

\* C11: the promotion test reports the mean sales of the rows with
\* promo_count > 0, the mean sales of the rows with promo_count = 0, and the
\* lift (promo_mean - no_promo_mean) / no_promo_mean * 100; on eight days of
\* sales 100 with a promotion on day 8 selling 200 it reports 200, 100 and 100.
C11_PromoMeansAndLift ==
    (promo_result # NoResult /\ promo_result.tag = "ok") =>
        LET Sp == SumInts(PromoGroup)
            Np == Len(PromoGroup)
            Sn == SumInts(NoPromoGroup)
            Nn == Len(NoPromoGroup)
            lift == promo_result.lift_percentage
        IN /\ NumEq(promo_result.promo_mean, <<Sp, Np>>)
           /\ NumEq(promo_result.no_promo_mean, <<Sn, Nn>>)
           /\ Sn # 0 => /\ lift # NaN
                         /\ lift[2] # 0
                         /\ lift[1] * Np * Sn = 100 * (Sp * Nn - Sn * Np) * lift[2]
           /\ (Sn = 0 /\ Sp > 0) => lift = PosInf
           /\ (Sn = 0 /\ Sp = 0) => lift = NaN
           /\ stat_df = PromoExample =>
                 /\ NumEq(promo_result.promo_mean, Num(200))
                 /\ NumEq(promo_result.no_promo_mean, Num(100))
                 /\ NumEq(lift, Num(100))

\* the promotion test has run on the eight-day example
C11_Witness ==
    /\ stat_df = PromoExample
    /\ promo_result # NoResult
    /\ promo_result.tag = "ok"
    /\ NumEq(promo_result.lift_percentage, Num(100))

\* the two samples hold the same values, each as many times
SameSample(xs, ys) ==
    /\ Len(xs) = Len(ys)
    /\ \A i \in 1..Len(xs) :
          Cardinality({j \in 1..Len(xs) : xs[j] = xs[i]})
            = Cardinality({j \in 1..Len(ys) : ys[j] = xs[i]})

\* C12: when the two groups hold identical samples the result has
\* t_statistic = 0, lift_percentage = 0 and effect_size = "small".
C12_IdenticalGroups ==
    (promo_result # NoResult /\ Len(PromoGroup) > 0
        /\ SameSample(PromoGroup, NoPromoGroup)) =>
        /\ promo_result.tag = "ok"
        /\ NumEq(promo_result.t_statistic.sq, Num(0))
        /\ NumEq(promo_result.lift_percentage, Num(0))
        /\ promo_result.effect_size = "small"

-----------------------------------------------------------------------------
(* Properties of the scenario transform *)

\* column c of the table holds the same values in a and in b
SameColumn(a, b, c) ==
    /\ Len(a[c]) = Len(b[c])
    /\ \A i \in 1..Len(a[c]) :
          IF c = "date" THEN a[c][i] = b[c][i] ELSE SameCell(a[c][i], b[c][i])

\* column c of b is column c of a times (100 + pct) / 100
ScaledColumn(a, b, c, pct) ==
    /\ Len(a[c]) = Len(b[c])
    /\ \A i \in 1..Len(a[c]) :
          IF a[c][i] = NaN THEN b[c][i] = NaN
          ELSE /\ b[c][i] # NaN
               /\ b[c][i][1] * a[c][i][2] * 100 = a[c][i][1] * (100 + pct) * b[c][i][2]

\* C19: with promo_change = 0 and oil_change = 0 the scenario table equals
\* X_test in every cell.
C19_ZeroChangeIsIdentity ==
    (pc = "scenario" /\ promo_change = 0 /\ oil_change = 0) =>
        /\ DOMAIN scenario_df = DOMAIN X_test
        /\ \A c \in DOMAIN X_test : SameColumn(X_test, scenario_df, c)

\* the transform with both changes 0 on a table whose first row has a
\* promotion count and an oil price that are not 0
C19_Witness ==
    /\ pc = "scenario"
    /\ promo_change = 0
    /\ oil_change = 0
    /\ Len(X_test.date) > 1
    /\ ~NumEq(X_test.promo_count[1], Num(0))
    /\ ~NumEq(X_test.oil_price[1], Num(0))
    /\ SameCell(scenario_df.promo_count[1], X_test.promo_count[1])

\* C20: the scenario table has promo_count and oil_price multiplied by
\* (1 + pct / 100) and every other feature column equal to X_test's, and
\* X_test itself still is test[feature_cols].
C20_OnlyPromoAndOilScaled ==
    pc = "scenario" =>
        /\ DOMAIN scenario_df = DOMAIN X_test
        /\ X_test = Columns(test, feature_cols)
        /\ \A c \in DOMAIN X_test :
              IF c = "promo_count" THEN ScaledColumn(X_test, scenario_df, c, promo_change)
              ELSE IF c = "oil_price" THEN ScaledColumn(X_test, scenario_df, c, oil_change)
              ELSE SameColumn(X_test, scenario_df, c)

\* the transform with both sliders moved, on a table of several rows whose
\* promotion count and oil price change and whose lag column holds sales
C20_Witness ==
    /\ pc = "scenario"
    /\ promo_change # 0
    /\ oil_change # 0
    /\ Len(X_test.date) > 1
    /\ ~SameCell(scenario_df.promo_count[1], X_test.promo_count[1])
    /\ ~SameCell(scenario_df.oil_price[1], X_test.oil_price[1])
    /\ ~NumEq(X_test.lag_1[2], Num(0))
    /\ SameCell(scenario_df.lag_1[2], X_test.lag_1[2])

-----------------------------------------------------------------------------
(* Properties of the intervals and metrics *)

\* a number as a bound with no offset
Plain(x) ==
    [base |-> x, sign |-> 0, ssq |-> IF x = NaN THEN NaN ELSE Num(0),
     q |-> IF x = NaN THEN NaN ELSE Num(0)]

\* C13: the interval has lower <= mean <= upper, and for the same sample
\* the 0.99 interval contains the 0.95 interval.
C13_IntervalAroundMean ==
    (call.fn = "calculate_confidence_interval" /\ ret # NoResult) =>
        LET narrow == calculate_confidence_interval(call.values, 95)
            wide == calculate_confidence_interval(call.values, 99)
        IN /\ OffsetLeq(ret.lower, Plain(ret.mean))
           /\ OffsetLeq(Plain(ret.mean), ret.upper)
           /\ OffsetLeq(wide.lower, narrow.lower)
           /\ OffsetLeq(narrow.upper, wide.upper)

\* C14: for a sample of fewer than 2 values calculate_confidence_interval
\* returns an error indicator, and calculate_forecast_accuracy_metrics
\* reports no numeric Error_CI bounds.
C14_ErrorBelowTwoValues ==
    /\ (call.fn = "calculate_confidence_interval" /\ ret # NoResult
          /\ Len(call.values) < 2) => ret.tag = "error"
    /\ (call.fn = "calculate_forecast_accuracy_metrics" /\ ret # NoResult
          /\ Len(call.actual) < 2 /\ ret.tag = "ok") =>
            /\ ret.Error_CI_Lower.base = NaN
            /\ ret.Error_CI_Upper.base = NaN

\* the same bound: both NaN, or the same base, side and size
SameBound(a, b) ==
    IF a.base = NaN \/ b.base = NaN THEN a.base = b.base
    ELSE NumEq(a.base, b.base) /\ a.sign = b.sign /\ SizeLeq(a, b) /\ SizeLeq(b, a)

\* C17: one row per forecast point, in order, with lower_bound = forecast -
\* margin and upper_bound = forecast + margin for the one margin
\* z(confidence) * std(historical_errors), which is not negative: every row
\* has lower_bound <= forecast <= upper_bound at equal distances, and the
\* rows do not depend on the mean of the errors.
C17_SymmetricMargin ==
    (call.fn = "forecast_confidence_intervals" /\ ret # NoResult) =>
        LET rows == ret.rows
            errors == call.historical_errors
            margin == RootTimes(PopulationVariance(errors), ZQuantile(call.confidence))
            moved == forecast_confidence_intervals(call.forecasts,
                         [i \in 1..Len(errors) |-> errors[i] + 1], call.confidence).rows
        IN /\ Len(rows) = Len(call.forecasts)
           /\ \A i \in 1..Len(rows) :
                 /\ NumEq(rows[i].forecast, Num(call.forecasts[i]))
                 /\ SameBound(rows[i].lower_bound, Offset(rows[i].forecast, margin, 0 - 1))
                 /\ SameBound(rows[i].upper_bound, Offset(rows[i].forecast, margin, 1))
                 /\ OffsetLeq(rows[i].lower_bound, Plain(rows[i].forecast))
                 /\ OffsetLeq(Plain(rows[i].forecast), rows[i].upper_bound)
                 /\ rows[i].lower_bound.sign = 0 - rows[i].upper_bound.sign
                 /\ SameBound(rows[i].lower_bound, moved[i].lower_bound)
                 /\ SameBound(rows[i].upper_bound, moved[i].upper_bound)

\* C18: evaluate_model(y, y) gives MAPE = 0, MAE = 0, RMSE = 0 and R2 = 1
\* for every non-empty y.
C18_PerfectPrediction ==
    (call.fn = "evaluate_model" /\ ret # NoResult
        /\ Len(call.y_true) > 0 /\ call.y_pred = call.y_true) =>
        /\ ret.tag = "ok"
        /\ NumEq(ret.MAPE, Num(0))
        /\ NumEq(ret.MAE, Num(0))
        /\ NumEq(ret.RMSE, Num(0))
        /\ NumEq(ret.R2, Num(1))

-----------------------------------------------------------------------------
(* Properties of calculate_correlations *)

\* the row calculate_correlations computes for the column called name
RowOf(name) ==
    LET all == CorrelationRows(call.frame, call.target_col)
    IN all[CHOOSE i \in 1..Len(all) : all[i].Feature = name]

\* the features of the frame
FeaturesOf(frame) == {frame[i].name : i \in 1..Len(frame)} \ {call.target_col}

\* a.Strength >= b.Strength
AtLeastAsStrong(a, b) ==
    a.Strength[1] * b.Strength[2] >= b.Strength[1] * a.Strength[2]

\* C15: the target is never among the returned features; at most top_n
\* rows are returned, ordered by absolute correlation descending, and no
\* feature left out has a larger absolute correlation than a returned one;
\* Significant is true exactly when the p-value is below 0.05.
C15_TopCorrelations ==
    (call.fn = "calculate_correlations" /\ ret # NoResult /\ ret.tag = "ok") =>
        LET rows == ret.rows
            returned == {rows[i].Feature : i \in 1..Len(rows)}
        IN /\ Len(rows) <= call.top_n
           /\ call.target_col \notin returned
           /\ returned \subseteq FeaturesOf(call.frame)
           /\ Cardinality(returned) = Len(rows)
           /\ \A i, j \in 1..Len(rows) :
                 (i < j /\ rows[i].Correlation.sq # NaN /\ rows[j].Correlation.sq # NaN)
                    => /\ rows[i].Strength = rows[i].Correlation.sq
                       /\ AtLeastAsStrong(rows[i], rows[j])
           /\ \A name \in FeaturesOf(call.frame) \ returned :
                 \A i \in 1..Len(rows) : AtLeastAsStrong(rows[i], RowOf(name))
           /\ \A i \in 1..Len(rows) :
                 rows[i].Significant = (rows[i].P_Value.defined /\ rows[i].P_Value.below)

\* three features of different defined correlations, the weakest left out
C15_Witness ==
    /\ call.fn = "calculate_correlations"
    /\ ret # NoResult
    /\ ret.tag = "ok"
    /\ Len(call.frame) = 4
    /\ call.top_n = 2
    /\ Len(ret.rows) = 2
    /\ ret.rows[1].Significant
    /\ ~ret.rows[2].Significant
    /\ ret.rows[2].Correlation.sq # NaN
    /\ \E name \in FeaturesOf(call.frame) :
          /\ RowOf(name).Correlation.sq # NaN
          /\ ~AtLeastAsStrong(RowOf(name), ret.rows[2])

\* C16: a feature with 10 or fewer non-missing observations has an
\* undefined correlation and p-value, is not flagged significant, and comes
\* after every feature that has a defined correlation.
C16_SparseFeaturesLast ==
    (call.fn = "calculate_correlations" /\ ret # NoResult /\ ret.tag = "ok") =>
        \A i \in 1..Len(ret.rows) :
            LET col == (SelectSeq(call.frame, LAMBDA c : c.name = ret.rows[i].Feature))[1]
            IN Len(DropNa(col.values)) <= MinObs =>
                  /\ ret.rows[i].Correlation.sq = NaN
                  /\ ~ret.rows[i].P_Value.defined
                  /\ ~ret.rows[i].Significant
                  /\ \A j \in 1..Len(ret.rows) :
                        ret.rows[j].Correlation.sq # NaN => j < i

-----------------------------------------------------------------------------
(* Properties of the oil price and holiday columns *)

\* the prices oil.csv gives for day d
PricesOn(d) ==
    {oil[i].dcoilwtico : i \in {j \in 1..Len(oil) : oil[j].date = d /\ oil[j].dcoilwtico # NaN}}

\* the days oil.csv has a price for
PricedDays == {d \in 1..(LastDate + 1) : PricesOn(d) # {}}

\* C21: oil_price on each date is the commodity price of that date when
\* known, otherwise the last known price before that date, otherwise the
\* first known price after it; it is never missing.
C21_OilPriceFilled ==
    pc = "featured" =>
        \A i \in 1..NRows :
            LET d == df.date[i]
                before == {e \in PricedDays : e < d}
                after == {e \in PricedDays : e > d}
            IN /\ df.oil_price[i] # NaN
               /\ IF d \in PricedDays THEN df.oil_price[i] \in PricesOn(d)
                  ELSE IF before # {}
                  THEN df.oil_price[i] \in PricesOn(CHOOSE e \in before : \A f \in before : f <= e)
                  ELSE IF after # {}
                  THEN df.oil_price[i] \in PricesOn(CHOOSE e \in after : \A f \in after : f >= e)
                  ELSE TRUE

\* the calendar has a row for day d
InCalendar(d) == \E j \in 1..Len(holidays) : holidays[j].date = <<d>>

\* C22: is_holiday is 1 for a date exactly when that date occurs in the
\* holiday calendar's date column, whatever duplicate or dateless entries
\* the calendar holds, and 0 otherwise.
C22_HolidayFlag ==
    pc = "featured" =>
        \A i \in 1..NRows :
            df.is_holiday[i] = Num(IF InCalendar(df.date[i]) THEN 1 ELSE 0)

\* a calendar with a repeated day and a dateless row; the repeated day is
\* flagged, another day is not
C22_Witness ==
    /\ pc = "featured"
    /\ \E j \in 1..Len(holidays) : holidays[j].date = <<>>
    /\ \E i \in 1..NRows :
          /\ Cardinality({j \in 1..Len(holidays) : holidays[j].date = <<df.date[i]>>}) > 1
          /\ df.is_holiday[i] = Num(1)
    /\ \E i \in 1..NRows : ~InCalendar(df.date[i]) /\ df.is_holiday[i] = Num(0)

-----------------------------------------------------------------------------
(* Properties of the modelling functions *)

\* the position of a feature in feature_names
PositionOf(names, x) == CHOOSE i \in 1..Len(names) : names[i] = x

\* C23: get_feature_importance returns all features sorted by importance
\* score descending, and features with equal scores keep their original
\* order in feature_names.
C23_ImportanceOrder ==
    (/\ call.fn = "get_feature_importance"
     /\ ret # NoResult
     /\ Len(call.model.feature_importances_) = Len(call.feature_names)) =>
        /\ ret.tag = "frame"
        /\ Len(ret.rows) = Len(call.feature_names)
        /\ \A i \in 1..Len(call.feature_names) :
              \E j \in 1..Len(ret.rows) :
                  /\ ret.rows[j].feature = call.feature_names[i]
                  /\ ret.rows[j].importance = call.model.feature_importances_[i]
        /\ \A i, j \in 1..Len(ret.rows) :
              i < j =>
                  \/ ret.rows[i].importance > ret.rows[j].importance
                  \/ /\ ret.rows[i].importance = ret.rows[j].importance
                     /\ PositionOf(call.feature_names, ret.rows[i].feature)
                          < PositionOf(call.feature_names, ret.rows[j].feature)

\* the columns of a training frame that get_feature_columns does not name
UnknownColumns(X) ==
    {X.columns[i] : i \in 1..Len(X.columns)}
        \ {get_feature_columns[i] : i \in 1..Len(get_feature_columns)}

\* C24: train_xgboost fails with a DataError, returning no model, when the
\* training features contain a column outside the feature set of
\* get_feature_columns or when the target length differs from the number of
\* feature rows.
C24_TrainRejectsBadInput ==
    (/\ call.fn = "train_xgboost"
     /\ ret # NoResult
     /\ \/ UnknownColumns(call.X_train) # {}
        \/ call.y_train # call.X_train.rows) =>
        ret = [tag |-> "raise", error |-> "DataError"]

-----------------------------------------------------------------------------
(* The two groups of each test *)

\* C27: the two-group tests partition the records: in test_promotion_impact
\* and in test_holiday_impact every input row is counted in exactly one of
\* the two groups, for any values of promo_count and is_holiday.
C27_GroupsPartitionRows ==
    /\ promo_result # NoResult => Len(PromoGroup) + Len(NoPromoGroup) = Len(stat_df)
    /\ holiday_result # NoResult => Len(HolidayGroup) + Len(RegularGroup) = Len(stat_df)

-----------------------------------------------------------------------------
(* The model cache *)

\* C26: the cache key of get_trained_models holds every input that
\* determines its result, so no call ever receives a cached model or
\* baseline that was computed from inputs other than its own.
C26_NoStaleModel ==
    trained # NoCall =>
        trained.value = get_trained_models(trained.X_train, trained.y_train,
                                           get_feature_columns, trained.test_size)

-----------------------------------------------------------------------------
(* Properties of the persistence calls *)

\* two forecast rows under one (date, model_type, scenario_name)
SameForecastKey(r, q) ==
    r.date = q.date /\ r.model_type = q.model_type /\ r.scenario_name = q.scenario_name

\* the rows of a batch that no later row of the batch replaces
LastOfKey(rows, i) == \A j \in (i + 1)..Len(rows) : rows[j].date # rows[i].date

\* C25: persistence writes overwrite on conflict: after any sequence of
\* save calls, forecasts holds at most one row per (date, model_type,
\* scenario_name), scenarios at most one row per scenario_name and
\* historical_sales at most one row per date, and that row carries the
\* values of the most recent write for its key.
C25_OverwriteOnConflict ==
    /\ \A i, j \in 1..Len(db_forecasts) :
          SameForecastKey(db_forecasts[i], db_forecasts[j]) => i = j
    /\ \A i, j \in 1..Len(db_scenarios) :
          db_scenarios[i].scenario_name = db_scenarios[j].scenario_name => i = j
    /\ \A i, j \in 1..Len(db_historical) :
          db_historical[i].date = db_historical[j].date => i = j
    /\ (db_call.fn = "save_forecast" /\ db_call.outcome = "ok") =>
          \E i \in 1..Len(db_forecasts) : db_forecasts[i] = db_call.row
    /\ (db_call.fn = "save_scenario" /\ db_call.outcome = "ok") =>
          \E i \in 1..Len(db_scenarios) : db_scenarios[i] = db_call.row
    /\ (db_call.fn = "save_bulk_forecasts" /\ db_call.outcome = "ok") =>
          \A k \in 1..Len(db_call.rows) :
              LastOfKey(db_call.rows, k) =>
                  \E i \in 1..Len(db_forecasts) : db_forecasts[i] = db_call.rows[k]
    /\ (db_call.fn = "save_historical_sales" /\ db_call.outcome = "ok") =>
          \A k \in 1..Len(db_call.rows) :
              LastOfKey(db_call.rows, k) =>
                  \E i \in 1..Len(db_historical) : db_historical[i] = db_call.rows[k]

\* C28: every ForecastDatabase operation closes the connection it opened
\* before the call ends, whether it returns or raises: after any sequence
\* of calls, failing ones included, no connection opened by the wrapper is
\* still open.
C28_NoConnectionLeftOpen == db_connections = <<>>

\* the table a batch call writes to, as it is now
BatchTable ==
    IF db_call.fn = "save_bulk_forecasts" THEN db_forecasts ELSE db_historical

\* the last call was a batch call
BatchCall == db_call.fn \in {"save_bulk_forecasts", "save_historical_sales"}

\* C29 as stated: save_bulk_forecasts and save_historical_sales are
\* all-or-nothing: if writing any row of the batch fails, none of the
\* batch's rows is committed and the stored table is as before the call; if
\* the call succeeds, every row of the batch is stored.
C29_AllOrNothing ==
    BatchCall =>
        /\ db_call.outcome = "raise" => BatchTable = db_call.before
        /\ db_call.outcome = "ok" =>
              \A k \in 1..Len(db_call.rows) :
                  \E i \in 1..Len(BatchTable) : BatchTable[i] = db_call.rows[k]

\* C29, amended: if writing any row of the batch fails, the stored table is
\* as before the call; if the call succeeds, every row of the batch is
\* stored except a row that a later row of the same batch, with the same
\* date, has replaced.
C29_AllOrNothingLastWins ==
    BatchCall =>
        /\ db_call.outcome = "raise" => BatchTable = db_call.before
        /\ db_call.outcome = "ok" =>
              \A k \in 1..Len(db_call.rows) :
                  LastOfKey(db_call.rows, k) =>
                      \E i \in 1..Len(BatchTable) : BatchTable[i] = db_call.rows[k]

\* a batch whose second row failed after its first row had been written,
\* on a table that held a row before
C29_Witness ==
    /\ db_call.fn = "save_bulk_forecasts"
    /\ db_call.outcome = "raise"
    /\ Len(db_call.rows) = 2
    /\ ForecastNotNull(db_call.rows[1])
    /\ ~ForecastNotNull(db_call.rows[2])
    /\ Len(db_call.before) > 0
    /\ db_forecasts = db_call.before
    /\ \A i \in 1..Len(db_forecasts) : db_forecasts[i] # db_call.rows[1]

\* the arguments of get_forecasts that the caller supplied (not None)
Matches(r, c) ==
    /\ c.scenario_name # Null => r.scenario_name = c.scenario_name
    /\ c.model_type # Null => r.model_type = c.model_type
    /\ c.start_date # Null => r.date >= c.start_date[1]
    /\ c.end_date # Null => r.date <= c.end_date[1]

\* how often a row occurs in a sequence of rows
Occurrences(rows, r) == Cardinality({i \in 1..Len(rows) : rows[i] = r})

\* C30: get_forecasts returns exactly the stored forecast rows that match
\* every filter the caller supplied (scenario_name and model_type equal,
\* start_date <= date <= end_date), ordered by date ascending; an omitted
\* filter restricts nothing and a supplied filter is always applied.
C30_FiltersApplied ==
    db_call.fn = "get_forecasts" =>
        /\ \A i \in 1..Len(db_call.result) : Matches(db_call.result[i], db_call)
        /\ \A i \in 1..Len(db_forecasts) :
              Matches(db_forecasts[i], db_call) =>
                  Occurrences(db_call.result, db_forecasts[i])
                      = Occurrences(db_forecasts, db_forecasts[i])
        /\ \A i, j \in 1..Len(db_call.result) :
              i < j => db_call.result[i].date <= db_call.result[j].date

====
